---- MODULE Spec2Model ----
(***************************************************************************)
(* telegramCode: the chat-side delivery queue of the bot (bot.ts) and the  *)
(* per-user Telegram rate-limit governor (rateLimiter.ts).                 *)
(*                                                                         *)
(* The specifications of this module:                                      *)
(*   SpecRL   - withRateLimitRetry with real time (ms clock), several      *)
(*              overlapping callers of one user;                           *)
(*   Spec     - the delivery queue of one user: adapter output / status    *)
(*              events, user input, the debounce timer, processOutputQueue,*)
(*              sendOutputImmediate, sendChunk, the status handler, with   *)
(*              every transport call wrapped in withRateLimitRetry (the    *)
(*              clock abstracted to "cooldown active or not");             *)
(*   FairSpec - Spec plus the fairness of timers and of the transport;     *)
(*   SpecAdapters - the session lifecycle of one user on one backend       *)
(*              (claudeCliAdapter.ts or openCodeAdapter.ts): start, resume,*)
(*              stop, the poll timer, the event-stream read loop;          *)
(*   SpecClean - cleanOutput applied to a capture and to its own result;   *)
(*   SpecDiff - getNewContent of two snapshots;                            *)
(*   SpecStatus - the classification and deduplication of polled chunks;   *)
(*   SpecChunks - Spec with outputs of several chunks;                     *)
(*   SpecTrack - Spec started with message ids loaded from storage;        *)
(*   SpecClassify - checkIsStatusOutput on chunks of character lines;      *)
(*   SpecSplit - splitMessage of a text under a length limit;              *)
(*   SpecSse  - the response buffer of one session of openCodeAdapter.ts:  *)
(*              the events of the stream, the debounce timer, the flush;   *)
(*   SpecFail - Spec with sends that fail more than once;                  *)
(*   SpecLoader - Spec with several user inputs and a status beside them;  *)
(*   SpecUsers - the delivery queues of two users side by side;            *)
(*   SpecKeys - the automatic key presses of claudeCliAdapter.ts over      *)
(*              sessions that are stopped and started again;               *)
(*   SpecModel - setModel of openCodeAdapter.ts on a list of models;       *)
(*   SpecServer, FairSpecServer - ensureOpenCodeServer of                  *)
(*              installManager.ts beside the server process it starts.     *)
(***************************************************************************)
EXTENDS Integers, Sequences, FiniteSets, Bags, TLC

VARIABLES
    \* ---- rateLimiter.ts (SpecRL) ----
    now,              \* Date.now(), ms
    blockedUntil,     \* RateLimitState.blockedUntil of the user
    callers,          \* the overlapping withRateLimitRetry calls of the user
    rl429,            \* number of 429 answers given so far
    \* ---- bot.ts, UserMessageState ----
    lastMessageId,
    needsNewMessage,
    messageIds,
    loaderMessageId,
    statusMessageId,
    \* ---- bot.ts, OutputQueueState ----
    pendingOutput,
    isProcessing,
    debounceTimer,    \* TRUE: the timer of queueOutput is armed
    retryTimers,      \* number of armed setTimeout of processOutputQueue's finally
    \* ---- running async handlers and the transport ----
    cooldown,         \* Date.now() < blockedUntil, as the delivery path sees it
    tasks,            \* bag of suspended async handlers, each awaiting one call
    \* ---- environment counters ----
    emitted,          \* output events emitted by the adapter so far
    statuses,         \* status events emitted so far
    inputs,           \* user inputs so far
    fails,            \* transport failures injected so far
    \* ---- observation ----
    delivered,        \* texts handed to sendOutputImmediate, in order
    lastQueued,       \* the text of the latest queueOutput call
    soiAnswer,        \* the answer sendOutputImmediate got in the step just taken
    lastMessageInput, \* number of user inputs when the send of lastMessageId was issued
    \* ---- adapters (SpecAdapters) ----
    backend,          \* which adapter the behaviour is about
    sessions,         \* this.sessions.get(userId): the registered session, 0 if none
    sess,             \* the session objects ever created, by the call that created them
    calls,            \* the startSession / resumeSession calls
    loops,            \* the pollSse read loops ever started
    installed,        \* checkIsInstalled(tool)
    serverUp,         \* checkIsOpenCodeServerRunning()
    tmuxNames,        \* names of the terminal sessions that exist
    adEmitted,        \* the events the adapter emitted in the step just taken
    stoppedOf,        \* sessions for which `stopped` was emitted
    announced,        \* sessions for which the model announcement was emitted
    polled,           \* what the poll of the step just taken captured
    \* ---- cleanOutput (SpecClean) ----
    rawText,          \* the capture of the pane
    cleanedOnce,      \* cleanOutput(rawText)
    cleanedTwice,     \* cleanOutput(cleanedOnce)
    passes,           \* how many times cleanOutput was applied
    \* ---- getNewContent (SpecDiff) ----
    oldContent,       \* session.lastContent
    newContent,       \* the content of this poll
    newPart,          \* getNewContent(oldContent, newContent)
    diffDone,         \* getNewContent has returned
    \* ---- status deduplication (SpecStatus) ----
    lastStatusText,   \* session.lastStatusText
    cleanedOutput,    \* the chunk of the poll just made
    pollEvent,        \* the event the poll just made emitted
    lastChunk,        \* the class of the last chunk, and its text without glyphs
    polls,            \* polls made
    \* ---- checkIsStatusOutput (SpecClassify) ----
    classText,        \* the filtered chunk
    classResult,      \* what checkIsStatusOutput made of it
    \* ---- splitMessage (SpecSplit) ----
    splitText,        \* the text to split
    splitMaxLen,      \* maxLen
    splitParts,       \* the chunks splitMessage returned
    \* ---- the response buffer of one session (SpecSse) ----
    sseNow,           \* the clock (ms)
    responseText,     \* session.currentResponseText
    timerDue,         \* when session.outputTimer fires (NoTimer: null)
    modelShown,       \* session.isModelInfoShown
    modelLabel,       \* session.currentModelLabel
    sseOut,           \* the texts emitted as `output` in the step just taken
    sseStep,          \* what the step just taken was
    lastDeltaAt,      \* when the last text delta of the session arrived
    deltas,           \* the text deltas since the buffer was last reset
    debounced,        \* the timer emitted the buffer and no delta came since
    \* ---- the maps of bot.ts and rateLimiter.ts with two users (SpecUsers) ----
    userMessageStates,
    outputQueues,
    rateLimitStates,
    inFlight,         \* per user: timers, calls in flight, events so far
    actor,            \* the user the step just taken belongs to
    \* ---- the automatic keystrokes of claudeCliAdapter.ts (SpecKeys) ----
    keySess,          \* this.sessions.get(userId)
    tmuxGen,          \* which terminal session of the user's name runs (0: none)
    keyTimers,        \* the pending setTimeout callbacks of pollOutput
    keySent,          \* the keystroke delivered in the step just taken
    keyStarts,        \* startSession calls so far
    \* ---- setModel of openCodeAdapter.ts (SpecModel) ----
    modelQuery,       \* the modelId given to setModel
    modelList,        \* what `opencode models` prints, or CliFailed
    modelCache,       \* cachedModels
    modelCacheFresh,  \* the cache is younger than modelsCacheTtlMs
    modelSession,     \* the session of the user
    modelBefore,      \* the session before setModel
    modelFound,       \* what findModelByQuery returned
    modelReturned,    \* what setModel returned
    \* ---- ensureOpenCodeServer of installManager.ts (SpecServer) ----
    srvPc,            \* where ensureOpenCodeServer stands
    srvI,             \* i of the waiting loop
    srvProbes,        \* health probes sent by the waiting loop of this call
    srvHealthy,       \* /global/health answers ok
    srvProcs,         \* the processes started by exec, oldest first
    openCodeProcess,  \* index of the process the module variable holds
    srvCalls          \* ensureOpenCodeServer calls so far

rlVars == <<now, blockedUntil, callers, rl429>>
botVars == <<lastMessageId, needsNewMessage, messageIds, loaderMessageId,
             statusMessageId, pendingOutput, isProcessing, debounceTimer,
             retryTimers, cooldown, tasks, emitted, statuses, inputs,
             fails, delivered, lastQueued, soiAnswer, lastMessageInput>>
adVars == <<backend, sessions, sess, calls, loops, installed, serverUp,
            tmuxNames, adEmitted, stoppedOf, announced, polled>>
vars == <<now, blockedUntil, callers, rl429,
          lastMessageId, needsNewMessage, messageIds, loaderMessageId,
          statusMessageId, pendingOutput, isProcessing, debounceTimer,
          retryTimers, cooldown, tasks, emitted, statuses, inputs,
          fails, delivered, lastQueued, soiAnswer, lastMessageInput,
          backend, sessions, sess, calls, loops, installed, serverUp,
          tmuxNames, adEmitted, stoppedOf, announced, polled,
          rawText, cleanedOnce, cleanedTwice, passes,
          oldContent, newContent, newPart, diffDone,
          lastStatusText, cleanedOutput, pollEvent, lastChunk, polls,
          classText, classResult,
          splitText, splitMaxLen, splitParts,
          sseNow, responseText, timerDue, modelShown, modelLabel, sseOut,
          sseStep, lastDeltaAt, deltas, debounced,
          userMessageStates, outputQueues, rateLimitStates, inFlight, actor,
          keySess, tmuxGen, keyTimers, keySent, keyStarts,
          modelQuery, modelList, modelCache, modelCacheFresh, modelSession,
          modelBefore, modelFound, modelReturned,
          srvPc, srvI, srvProbes, srvHealthy, srvProcs, openCodeProcess,
          srvCalls>>
cleanVars == <<rawText, cleanedOnce, cleanedTwice, passes>>
diffVars == <<oldContent, newContent, newPart, diffDone>>
statusVars == <<lastStatusText, cleanedOutput, pollEvent, lastChunk, polls>>
classVars == <<classText, classResult>>
splitVars == <<splitText, splitMaxLen, splitParts>>
textVars == <<cleanVars, diffVars, statusVars>>
sseVars == <<sseNow, responseText, timerDue, modelShown, modelLabel, sseOut,
             sseStep, lastDeltaAt, deltas, debounced>>
userVars == <<userMessageStates, outputQueues, rateLimitStates, inFlight, actor>>
keyVars == <<keySess, tmuxGen, keyTimers, keySent, keyStarts>>
modelVars == <<modelQuery, modelList, modelCache, modelCacheFresh, modelSession,
               modelBefore, modelFound, modelReturned>>
serverVars == <<srvPc, srvI, srvProbes, srvHealthy, srvProcs, openCodeProcess,
                srvCalls>>
laterVars == <<userVars, keyVars, modelVars, serverVars>>
moreVars == <<classVars, splitVars, sseVars, laterVars>>
progVars == <<rlVars, botVars, adVars>>
nonRlVars == <<botVars, adVars, textVars, moreVars>>
nonBotVars == <<rlVars, adVars, textVars, moreVars>>
nonAdVars == <<rlVars, botVars, textVars, moreVars>>
nonCleanVars == <<progVars, diffVars, statusVars, moreVars>>
nonDiffVars == <<progVars, cleanVars, statusVars, moreVars>>
nonStatusVars == <<progVars, cleanVars, diffVars, moreVars>>
nonClassVars == <<progVars, textVars, splitVars, sseVars, laterVars>>
nonSplitVars == <<progVars, textVars, classVars, sseVars, laterVars>>
nonSseVars == <<progVars, textVars, classVars, splitVars, laterVars>>
earlierVars == <<progVars, textVars, classVars, splitVars, sseVars>>
nonUserVars == <<earlierVars, keyVars, modelVars, serverVars>>
nonKeyVars == <<earlierVars, userVars, modelVars, serverVars>>
nonModelVars == <<earlierVars, userVars, keyVars, serverVars>>
nonServerVars == <<earlierVars, userVars, keyVars, modelVars>>

(***************************************************************************)
(* Bounds of the model.                                                    *)
(***************************************************************************)
NumCallers == 2        \* overlapping withRateLimitRetry calls of one user
Max429 == 3            \* 429 answers the chat gives in SpecRL
MaxRetryAfter == 1     \* largest retry_after (seconds) the chat answers
MaxNow == 3000         \* the clock stops here (ms)
ClockStep == 500       \* granularity of the clock (ms)
MaxOutputs == 3        \* output events the adapter emits
MaxStatuses == 2       \* status events the adapter emits
MaxInputs == 1         \* text messages the user sends
MaxEvents == 4         \* events (output, status, input) in one run
MaxFails == 1          \* transport calls the chat fails (429 included)
MaxChunks == 1         \* most chunks splitMessage cuts a text into
MaxStarts == 2         \* startSession / resumeSession calls of the user
MaxCleanLen == 4       \* longest capture given to cleanOutput
MaxDiffLines == 3      \* most lines of a snapshot given to getNewContent
MaxChunkLines == 3     \* most lines of a polled chunk
MaxPolls == 2          \* polls that deliver a chunk
MaxLongChunks == 3     \* most chunks of a long output (SpecChunks)
MaxLongOutputs == 2    \* long outputs the adapter emits (SpecChunks)
MaxLongStatuses == 1   \* status events beside the long outputs (SpecChunks)
MaxHeadroom == 1       \* most free places of the loaded id list (SpecTrack)
MaxClassLines == 4     \* most lines of a chunk given to checkIsStatusOutput
MaxSplitLen == 5       \* largest maxLen given to splitMessage
MaxSplitText == 8      \* longest text given to splitMessage
MaxBuffer == 2         \* longest response buffer (SpecSse)
MaxSendFails == 2      \* transport calls the chat fails in SpecFail
MaxLoaderInputs == 2   \* text messages the user sends in SpecLoader
MaxQueryLen == 3       \* longest query given to setModel (SpecModel)
MaxScreens == 2        \* different contents capture-pane shows (SpecKeys)
MaxEnsureCalls == 2    \* ensureOpenCodeServer calls in SpecServer
MaxKeyStarts == 2      \* startSession calls in SpecKeys
MaxUserOutputs == 2    \* output events of each user in SpecUsers
MaxUserStatuses == 1   \* status events of each user in SpecUsers
MaxUserFails == 1      \* transport calls the chat fails in SpecUsers
MaxSseNow == 1000      \* the clock of SpecSse stops here (ms)
SseClockStep == 250    \* granularity of the clock of SpecSse (ms)

(***************************************************************************)
(* rateLimiter.ts                                                          *)
(***************************************************************************)
defaultRetryAfterSec == 30
NoRetryAfter == 0      \* the 429 answer carries no retry_after

\* Math.random() in [0,1), in thousandths
Randoms == {0, 999}

CeilDiv(a, b) == (a + b - 1) \div b

\* Math.ceil(retryAfterSec * 1000 * (1 + Math.random() * 0.3))
getRetryAfterMs_noJitter(retryAfter, rnd) ==
    LET retryAfterSec == IF retryAfter = NoRetryAfter THEN defaultRetryAfterSec
                         ELSE retryAfter
    IN  CeilDiv(retryAfterSec * 1000 * (1000 - 300), 1000)

getRetryAfterMs(retryAfter, rnd) ==
    LET retryAfterSec == IF retryAfter = NoRetryAfter THEN defaultRetryAfterSec
                         ELSE retryAfter
    IN  CeilDiv(retryAfterSec * (1000 * 1000 + 300 * rnd), 1000)

checkIsTelegramRateLimitError_anyFailure(err) == err # "ok"

\* err.response?.error_code === 429
checkIsTelegramRateLimitError(err) == err = "429"

\* Date.now() < state.blockedUntil
checkIsRateLimited == now < blockedUntil

\* one call of withRateLimitRetry: where it stands (pc), when its sleep ends
\* (wakeAt), how often it has invoked the operation (calls), what the first
\* attempt answered (first), and the 429 it is waiting out (retryAfter, waitMs)
IdleCaller == [pc |-> "idle", wakeAt |-> 0, calls |-> 0, first |-> "none",
               retryAfter |-> 0, waitMs |-> 0]

Callers == 1..NumCallers

\* withRateLimitRetry up to its first await: sleep out the cooldown, or call
rlEnter(c) ==
    LET remainingMs == blockedUntil - now
    IN  IF remainingMs > 0
        THEN [c EXCEPT !.pc = "presleep", !.wakeAt = now + remainingMs]
        ELSE [c EXCEPT !.pc = "op1", !.calls = @ + 1]

RlCall(k) ==
    /\ callers[k].pc = "idle"
    /\ callers' = [callers EXCEPT ![k] = rlEnter(IdleCaller)]
    /\ UNCHANGED <<now, blockedUntil, rl429>>
    /\ UNCHANGED nonRlVars

\* sleep(remainingMs) is over: the first attempt
RlWakeFirst(k) ==
    /\ callers[k].pc = "presleep"
    /\ now >= callers[k].wakeAt
    /\ callers' = [callers EXCEPT ![k].pc = "op1", ![k].calls = @ + 1]
    /\ UNCHANGED <<now, blockedUntil, rl429>>
    /\ UNCHANGED nonRlVars

\* what the chat answers to one attempt
Answers == {"ok", "err", "429"}

\* the first attempt is answered: return, rethrow, or on 429 set the cooldown
\* and sleep
RlFirstAnswer(k) ==
    /\ callers[k].pc = "op1"
    /\ \E err \in Answers, ra \in 1..MaxRetryAfter, rnd \in Randoms :
         IF err = "ok"
         THEN /\ callers' = [callers EXCEPT ![k].pc = "returned", ![k].first = err]
              /\ UNCHANGED <<blockedUntil, rl429>>
         ELSE IF ~checkIsTelegramRateLimitError(err)
         THEN /\ callers' = [callers EXCEPT ![k].pc = "thrown", ![k].first = err]
              /\ UNCHANGED <<blockedUntil, rl429>>
         ELSE LET waitMs == getRetryAfterMs(ra, rnd)
              IN  /\ rl429 < Max429
                  /\ rl429' = rl429 + 1
                  /\ blockedUntil' = now + waitMs
                  /\ callers' = [callers EXCEPT ![k].pc = "sleep",
                                                ![k].first = err,
                                                ![k].wakeAt = now + waitMs,
                                                ![k].waitMs = waitMs,
                                                ![k].retryAfter = ra]
    /\ UNCHANGED now
    /\ UNCHANGED nonRlVars

\* sleep(waitMs) is over: the single retry
RlWakeRetry(k) ==
    /\ callers[k].pc = "sleep"
    /\ now >= callers[k].wakeAt
    /\ callers' = [callers EXCEPT ![k].pc = "op2", ![k].calls = @ + 1]
    /\ UNCHANGED <<now, blockedUntil, rl429>>
    /\ UNCHANGED nonRlVars

\* the retry is answered: success clears the cooldown, a second 429 sets a
\* fresh one, and every failure is rethrown
RlRetryAnswer(k) ==
    /\ callers[k].pc = "op2"
    /\ \E retryErr \in Answers, ra \in 1..MaxRetryAfter, rnd \in Randoms :
         IF retryErr = "ok"
         THEN /\ blockedUntil' = 0
              /\ callers' = [callers EXCEPT ![k].pc = "returned"]
              /\ UNCHANGED rl429
         ELSE IF checkIsTelegramRateLimitError(retryErr)
         THEN /\ rl429 < Max429
              /\ rl429' = rl429 + 1
              /\ blockedUntil' = now + getRetryAfterMs(ra, rnd)
              /\ callers' = [callers EXCEPT ![k].pc = "thrown429"]
         ELSE /\ callers' = [callers EXCEPT ![k].pc = "thrown"]
              /\ UNCHANGED <<blockedUntil, rl429>>
    /\ UNCHANGED now
    /\ UNCHANGED nonRlVars

\* the caller has its result; it may call again
RlDone(k) ==
    /\ callers[k].pc \in {"returned", "thrown", "thrown429"}
    /\ callers' = [callers EXCEPT ![k] = IdleCaller]
    /\ UNCHANGED <<now, blockedUntil, rl429>>
    /\ UNCHANGED nonRlVars

Tick ==
    /\ now + ClockStep <= MaxNow
    /\ now' = now + ClockStep
    /\ UNCHANGED <<blockedUntil, callers, rl429>>
    /\ UNCHANGED nonRlVars

(***************************************************************************)
(* bot.ts: per-user message state and output queue                         *)
(***************************************************************************)
\* Message ids are opaque handles to the bot: the chat names the message by
\* the send that created it (an output chunk, a status chunk, the loader reply,
\* the user's own message). NoMsg is null.
NoMsg == [by |-> "none", n |-> 0, i |-> 0]
maxTrackedIds == 500

NoText == [id |-> 0, chunks |-> 0]
NoAnswer == [step |-> "none", res |-> "none"]

\* the state of the user, as one value the handlers below transform
World ==
    [lastMessageId |-> lastMessageId, needsNewMessage |-> needsNewMessage,
     messageIds |-> messageIds, loaderMessageId |-> loaderMessageId,
     statusMessageId |-> statusMessageId, pendingOutput |-> pendingOutput,
     isProcessing |-> isProcessing, debounceTimer |-> debounceTimer,
     retryTimers |-> retryTimers, cooldown |-> cooldown, tasks |-> tasks,
     emitted |-> emitted, statuses |-> statuses,
     inputs |-> inputs, fails |-> fails, delivered |-> delivered,
     lastQueued |-> lastQueued, soiAnswer |-> NoAnswer,
     lastMessageInput |-> lastMessageInput]

Commit(w) ==
    /\ lastMessageId' = w.lastMessageId
    /\ needsNewMessage' = w.needsNewMessage
    /\ messageIds' = w.messageIds
    /\ loaderMessageId' = w.loaderMessageId
    /\ statusMessageId' = w.statusMessageId
    /\ pendingOutput' = w.pendingOutput
    /\ isProcessing' = w.isProcessing
    /\ debounceTimer' = w.debounceTimer
    /\ retryTimers' = w.retryTimers
    /\ cooldown' = w.cooldown
    /\ tasks' = w.tasks
    /\ emitted' = w.emitted
    /\ statuses' = w.statuses
    /\ inputs' = w.inputs
    /\ fails' = w.fails
    /\ delivered' = w.delivered
    /\ lastQueued' = w.lastQueued
    /\ soiAnswer' = w.soiAnswer
    /\ lastMessageInput' = w.lastMessageInput
    /\ UNCHANGED nonBotVars

\* an async handler suspended at an await of withRateLimitRetry(op):
\*   kind/step  which handler it is and which call it awaits
\*   rl         where withRateLimitRetry stands: wait0 (sleeping out a cooldown),
\*              op1 (first attempt in flight), wait1 (sleeping after a 429),
\*              op2 (the retry in flight)
\*   text, i    the text being sent and the index of the chunk
\*   plain      sendChunk has fallen back to plain text
\*   target     the message id the call edits or deletes
\*   at         number of user inputs when the attempt in flight was issued
NewTask(kind, text) ==
    [kind |-> kind, step |-> "start", rl |-> "none", text |-> text, i |-> 0,
     plain |-> FALSE, target |-> NoMsg, at |-> 0]

InFlight(t) == t.rl \in {"op1", "op2"}

spawn(w, t) == [w EXCEPT !.tasks = @ (+) SetToBag({t})]

\* the operation closure runs: () => bot.telegram.xxx(userId, ...). The closures
\* of deleteLoaderMessage and of the status edit read the id from the state
\* when they run, not when the call was made.
invoke(w, t, rl) ==
    [t EXCEPT !.rl = rl,
              !.at = IF t.kind = "soi" THEN w.inputs ELSE @,
              !.target = IF t.step = "delLoader" THEN w.loaderMessageId
                         ELSE IF t.kind = "status" /\ t.step = "edit"
                         THEN w.statusMessageId
                         ELSE @]

\* withRateLimitRetry up to its first await
callStart(w, t) ==
    IF w.cooldown THEN [t EXCEPT !.rl = "wait0"] ELSE invoke(w, t, "op1")

call(w, t) == spawn(w, callStart(w, t))

markNeedsNewMessage(w) == [w EXCEPT !.needsNewMessage = TRUE]

setLoaderMessage(w, messageId) == [w EXCEPT !.loaderMessageId = messageId]

\* trackMessageId that never evicts
trackMessageId_uncapped(w, messageId) ==
    [w EXCEPT !.messageIds = Append(@, messageId)]

trackMessageId(w, messageId) ==
    LET pushed == Append(w.messageIds, messageId)
    IN  [w EXCEPT !.messageIds =
           IF Len(pushed) > maxTrackedIds
           THEN SubSeq(pushed, Len(pushed) - maxTrackedIds + 1, Len(pushed))
           ELSE pushed]

queueOutput_keepFirst(w, output) ==
    [w EXCEPT !.pendingOutput = IF @ = NoText THEN output ELSE @,
              !.debounceTimer = TRUE,
              !.lastQueued = output.id]

\* the slot is overwritten and the debounce timer (re)armed
queueOutput(w, output) ==
    [w EXCEPT !.pendingOutput = output,
              !.debounceTimer = TRUE,
              !.lastQueued = output.id]

soiFinish_noReschedule(w) == [w EXCEPT !.isProcessing = FALSE]

\* a loop over the chunks that stops after the first
soiRest_firstOnly(w, t, i) == soiFinish_noReschedule(w)

\* processOutputQueue, the finally block
soiFinish(w) ==
    [w EXCEPT !.isProcessing = FALSE,
              !.retryTimers = IF w.pendingOutput # NoText THEN @ + 1 ELSE @]

\* sendOutputImmediate: the loop over the chunks after the first
soiRest(w, t, i) ==
    IF i < t.text.chunks
    THEN call(w, [t EXCEPT !.step = "rest", !.i = i, !.plain = FALSE])
    ELSE soiFinish(w)

shouldSendNew_idOnly(w) == w.lastMessageId = NoMsg

shouldSendNew(w) == w.needsNewMessage \/ w.lastMessageId = NoMsg

\* sendOutputImmediate: the new-vs-edit decision for the first chunk
soiDecide(w, t) ==
    IF shouldSendNew(w)
    THEN call(w, [t EXCEPT !.step = "new", !.i = 0, !.plain = FALSE])
    ELSE call(w, [t EXCEPT !.step = "edit", !.i = 0, !.target = w.lastMessageId])

\* sendOutputImmediate: await deleteStatusMessage(userId)
soiDeleteStatus(w, t) ==
    IF w.statusMessageId # NoMsg
    THEN call([w EXCEPT !.statusMessageId = NoMsg],
              [t EXCEPT !.step = "delStatus", !.target = w.statusMessageId])
    ELSE soiDecide(w, t)

\* sendOutputImmediate from its entry: await deleteLoaderMessage(userId)
sendOutputImmediate(w, output) ==
    LET t == NewTask("soi", output)
    IN  IF w.loaderMessageId # NoMsg
        THEN call(w, [t EXCEPT !.step = "delLoader"])
        ELSE soiDeleteStatus(w, t)

\* processOutputQueue up to the first await of sendOutputImmediate
processOutputQueue(w) ==
    IF w.isProcessing THEN w
    ELSE IF w.pendingOutput = NoText THEN w
    ELSE sendOutputImmediate(
             [w EXCEPT !.isProcessing = TRUE,
                       !.pendingOutput = NoText,
                       !.delivered = Append(@, w.pendingOutput.id)],
             w.pendingOutput)

\* the message_id of the message a successful send creates
sentId(t) ==
    [by |-> IF t.kind = "soi" THEN "output" ELSE t.kind, n |-> t.text.id, i |-> t.i]

\* a continuation that records the message whether or not sendChunk sent one
soiAfterChunk_unchecked(w, t, msgId) ==
    soiRest(trackMessageId([w EXCEPT !.lastMessageId = msgId,
                                     !.needsNewMessage = FALSE,
                                     !.lastMessageInput = t.at],
                           msgId),
            t, t.i + 1)

\* sendOutputImmediate after sendChunk returned msgId (NoMsg: null)
soiAfterChunk(w, t, msgId) ==
    LET w1 == IF msgId # NoMsg
              THEN trackMessageId([w EXCEPT !.lastMessageId = msgId,
                                            !.needsNewMessage = FALSE,
                                            !.lastMessageInput = t.at],
                                  msgId)
              ELSE w
    IN  soiRest(w1, t, t.i + 1)

\* sendChunk after its call returned (res = "ok") or threw
soiSendChunk(w, t, res) ==
    IF res = "ok" THEN soiAfterChunk(w, t, sentId(t))
    ELSE IF ~t.plain THEN call(w, [t EXCEPT !.plain = TRUE])
    ELSE soiAfterChunk(w, t, NoMsg)

checkIsNotModified(errMessage) == errMessage = "notModified"

soiEditCatch_alwaysResend(w, t, res) ==
    call(w, [t EXCEPT !.step = "fallback", !.plain = FALSE])

soiEditCatch_neverResend(w, t, res) == soiRest(w, t, 1)

\* sendOutputImmediate, catch (editErr)
soiEditCatch(w, t, res) ==
    IF ~checkIsNotModified(res)
    THEN call(w, [t EXCEPT !.step = "fallback", !.plain = FALSE])
    ELSE soiRest(w, t, 1)

\* sendOutputImmediate resumes after the call it awaited
soiResume(w, t, res) ==
    CASE t.step = "delLoader" ->
           soiDeleteStatus([w EXCEPT !.loaderMessageId = NoMsg], t)
      [] t.step = "delStatus" -> soiDecide(w, t)
      [] t.step = "edit" ->
           IF res = "ok" THEN soiRest(w, t, 1) ELSE soiEditCatch(w, t, res)
      [] OTHER -> soiSendChunk(w, t, res)

\* handleAgentStatus: the loop over the chunks after the first
statusRest(w, t, i) ==
    IF i < t.text.chunks
    THEN call(w, [t EXCEPT !.step = "rest", !.i = i, !.plain = FALSE])
    ELSE w

statusAfterChunk(w, t, msgId) ==
    LET w1 == IF msgId # NoMsg
              THEN trackMessageId([w EXCEPT !.statusMessageId = msgId], msgId)
              ELSE w
    IN  statusRest(w1, t, t.i + 1)

statusSendChunk(w, t, res) ==
    IF res = "ok" THEN statusAfterChunk(w, t, sentId(t))
    ELSE IF ~t.plain THEN call(w, [t EXCEPT !.plain = TRUE])
    ELSE statusAfterChunk(w, t, NoMsg)

\* the async body of handleAgentStatus resumes after the call it awaited
statusResume(w, t, res) ==
    CASE t.step = "edit" ->
           IF res = "ok" \/ checkIsNotModified(res) THEN statusRest(w, t, 1)
           ELSE call([w EXCEPT !.statusMessageId = NoMsg],
                     [t EXCEPT !.step = "fallback", !.plain = FALSE])
      [] OTHER -> statusSendChunk(w, t, res)

\* the handler that awaited the call resumes with its result
resume(w, t, res) ==
    CASE t.kind = "soi" -> soiResume(w, t, res)
      [] t.kind = "status" -> statusResume(w, t, res)
      [] t.kind = "outDel" -> queueOutput(w, t.text)
      [] t.kind = "loaderDel" -> [w EXCEPT !.loaderMessageId = NoMsg]
      [] t.kind = "reply" ->
           IF res = "ok"
           THEN setLoaderMessage(trackMessageId(w, sentId(t)), sentId(t))
           ELSE w

\* withRateLimitRetry after an attempt was answered
withRateLimitRetry(w, t, res) ==
    IF t.kind = "reply" THEN resume(w, t, res)
    ELSE IF t.rl = "op1"
    THEN IF res = "ok" THEN resume(w, t, res)
         ELSE IF ~checkIsTelegramRateLimitError(res) THEN resume(w, t, res)
         ELSE spawn([w EXCEPT !.cooldown = TRUE], [t EXCEPT !.rl = "wait1"])
    ELSE IF res = "ok" THEN resume([w EXCEPT !.cooldown = FALSE], t, res)
         ELSE IF checkIsTelegramRateLimitError(res)
         THEN resume([w EXCEPT !.cooldown = TRUE], t, res)
         ELSE resume(w, t, res)

\* deleteStatusMessage(userId).then(() => queueOutput(userId, output))
handleAgentOutput(w, output) ==
    IF w.statusMessageId # NoMsg
    THEN call([w EXCEPT !.statusMessageId = NoMsg],
              [NewTask("outDel", output) EXCEPT !.step = "delStatus",
                                                !.target = w.statusMessageId])
    ELSE queueOutput(w, output)

\* deleteLoaderMessage(userId).catch(() => {}), not awaited
deleteLoaderMessage(w) ==
    IF w.loaderMessageId # NoMsg
    THEN call(w, [NewTask("loaderDel", NoText) EXCEPT !.step = "delLoader"])
    ELSE w

handleAgentStatus(w, status) ==
    LET w1 == deleteLoaderMessage(w)
        t == NewTask("status", status)
    IN  IF w1.statusMessageId # NoMsg
        THEN call(w1, [t EXCEPT !.step = "edit"])
        ELSE call(w1, [t EXCEPT !.step = "new"])

(***************************************************************************)
(* The chat transport, as the delivery path meets it                       *)
(***************************************************************************)
callKind(t) ==
    IF t.kind = "reply" THEN "reply"
    ELSE IF t.step \in {"delLoader", "delStatus"} THEN "delete"
    ELSE IF t.step = "edit" THEN "edit"
    ELSE "send"

\* a call that names no message can only fail
checkIsForced(t) == callKind(t) \in {"delete", "edit"} /\ t.target = NoMsg

chatAnswers(t) ==
    IF checkIsForced(t) THEN {"err"}
    ELSE IF callKind(t) = "reply" THEN {"ok"}
    ELSE IF callKind(t) = "edit"
    THEN {"ok", "notModified", "notFound", "err", "429"}
    ELSE {"ok", "err", "429"}

(***************************************************************************)
(* Actions of the delivery queue                                           *)
(***************************************************************************)
Events == emitted + statuses + inputs

\* the adapter emits `output` with a non-blank text of n chunks
EmitOutput ==
    /\ emitted < MaxOutputs
    /\ Events < MaxEvents
    /\ \E n \in 1..MaxChunks :
         Commit(handleAgentOutput([World EXCEPT !.emitted = @ + 1],
                                  [id |-> emitted + 1, chunks |-> n]))

\* the adapter emits `output` with a text splitMessage cuts into n >= 2 chunks
EmitLongOutput ==
    /\ emitted < MaxLongOutputs
    /\ \E n \in 2..MaxLongChunks :
         Commit(handleAgentOutput([World EXCEPT !.emitted = @ + 1],
                                  [id |-> emitted + 1, chunks |-> n]))

\* the adapter emits `status` with a non-blank text of n chunks
EmitStatus ==
    /\ statuses < MaxStatuses
    /\ Events < MaxEvents
    /\ \E n \in 1..MaxChunks :
         Commit(handleAgentStatus([World EXCEPT !.statuses = @ + 1],
                                  [id |-> statuses + 1, chunks |-> n]))

\* the adapter emits `status` while long outputs are delivered
EmitStatusBeside ==
    /\ statuses < MaxLongStatuses
    /\ EmitStatus

\* bot.on(message('text')) with a session active, up to `await ctx.reply`
UserInput ==
    /\ inputs < MaxInputs
    /\ Events < MaxEvents
    /\ LET text == [id |-> inputs + 1, chunks |-> 1]
           w1 == trackMessageId([World EXCEPT !.inputs = @ + 1],
                                [by |-> "user", n |-> text.id, i |-> 0])
       IN  Commit(spawn(markNeedsNewMessage(w1),
                        [NewTask("reply", text) EXCEPT !.rl = "op1"]))

\* the user sends up to MaxLoaderInputs text messages
UserInputAgain ==
    /\ inputs < MaxLoaderInputs
    /\ LET text == [id |-> inputs + 1, chunks |-> 1]
           w1 == trackMessageId([World EXCEPT !.inputs = @ + 1],
                                [by |-> "user", n |-> text.id, i |-> 0])
       IN  Commit(spawn(markNeedsNewMessage(w1),
                        [NewTask("reply", text) EXCEPT !.rl = "op1"]))

\* the timer of queueOutput fires
DebounceFire ==
    /\ debounceTimer
    /\ Commit(processOutputQueue([World EXCEPT !.debounceTimer = FALSE]))

\* the timer set by the finally block of processOutputQueue fires
RetryFire ==
    /\ retryTimers > 0
    /\ Commit(processOutputQueue([World EXCEPT !.retryTimers = @ - 1]))

\* a sleep of withRateLimitRetry is over: the attempt is issued
Wake(t) ==
    /\ BagIn(t, tasks)
    /\ t.rl \in {"wait0", "wait1"}
    /\ LET w == [World EXCEPT !.tasks = @ (-) SetToBag({t})]
       IN  Commit(spawn(w, invoke(w, t, IF t.rl = "wait0" THEN "op1" ELSE "op2")))

\* the chat answers an attempt in flight
Respond(t, res) ==
    /\ BagIn(t, tasks)
    /\ InFlight(t)
    /\ res \in chatAnswers(t)
    /\ (res # "ok" /\ ~checkIsForced(t)) => fails < MaxFails
    /\ LET w == [World EXCEPT
                   !.tasks = @ (-) SetToBag({t}),
                   !.fails = IF res # "ok" /\ ~checkIsForced(t) THEN @ + 1 ELSE @,
                   !.soiAnswer = IF t.kind = "soi"
                                 THEN [step |-> t.step, res |-> res]
                                 ELSE NoAnswer]
       IN  Commit(withRateLimitRetry(w, t, res))

\* the chat answers an attempt in flight, failing up to MaxSendFails calls
RespondFailing(t, res) ==
    /\ BagIn(t, tasks)
    /\ InFlight(t)
    /\ res \in chatAnswers(t)
    /\ (res # "ok" /\ ~checkIsForced(t)) => fails < MaxSendFails
    /\ LET w == [World EXCEPT
                   !.tasks = @ (-) SetToBag({t}),
                   !.fails = IF res # "ok" /\ ~checkIsForced(t) THEN @ + 1 ELSE @,
                   !.soiAnswer = IF t.kind = "soi"
                                 THEN [step |-> t.step, res |-> res]
                                 ELSE NoAnswer]
       IN  Commit(withRateLimitRetry(w, t, res))

\* time passes blockedUntil
CooldownExpire ==
    /\ cooldown
    /\ Commit([World EXCEPT !.cooldown = FALSE])

AllAnswers == {"ok", "notModified", "notFound", "err", "429"}

WakeAny == \E t \in BagToSet(tasks) : Wake(t)

RespondAny == \E t \in BagToSet(tasks), res \in AllAnswers : Respond(t, res)

RespondFailingAny ==
    \E t \in BagToSet(tasks), res \in AllAnswers : RespondFailing(t, res)

(***************************************************************************)
(* adapters/claudeCliAdapter.ts and adapters/openCodeAdapter.ts: the       *)
(* session lifecycle of one user on one backend                            *)
(***************************************************************************)
Backends == {"claude", "opencode"}

StartCalls == 1..MaxStarts

\* the user of the model, and another user whose id starts with the same digits
userId == <<"1">>
otherUserId == <<"1", "2">>

\* `claude-${userId}`
sessionName(u) == <<"claude-">> \o u

\* String.prototype.includes
Includes(s, sub) ==
    \E k \in 0..(Len(s) - Len(sub)) : SubSeq(s, k + 1, k + Len(sub)) = sub

\* tmux list-sessions -F '#{session_name}': one name per line
tmuxListSessions(names) ==
    (IF sessionName(userId) \in names THEN sessionName(userId) \o <<"\n">> ELSE <<>>)
    \o (IF sessionName(otherUserId) \in names THEN sessionName(otherUserId) ELSE <<>>)

\* a ClaudeSession / OpenCodeSession object; session c is the one start call c
\* creates
NoSession ==
    [isActive |-> FALSE, pollTimer |-> FALSE,
     outputTimer |-> FALSE, isModelInfoShown |-> FALSE,
     currentResponseText |-> FALSE]

NewSession == [NoSession EXCEPT !.isActive = TRUE]

\* a call of startSession / resumeSession: where it is suspended (pc), whether
\* it carries an instruction (args), whether the user had no live session when
\* it was made (fresh), and which step of bringing the backend up failed
IdleCall ==
    [pc |-> "idle", kind |-> "start", args |-> FALSE, fresh |-> FALSE,
     failure |-> "none"]

NoPoll == [sess |-> 0, raw |-> "none", wasListed |-> FALSE]

AdWorld ==
    [backend |-> backend, sessions |-> sessions, sess |-> sess, calls |-> calls,
     loops |-> loops, installed |-> installed, serverUp |-> serverUp,
     tmuxNames |-> tmuxNames, emitted |-> <<>>, stoppedOf |-> stoppedOf,
     announced |-> announced, polled |-> NoPoll]

\* a session object is reachable from the map, from a timer, from a pollSse
\* activation or from the call that awaits its model; any other one is garbage
Reachable(w, c) ==
    \/ w.sessions = c
    \/ w.sess[c].pollTimer
    \/ w.sess[c].outputTimer
    \/ \E l \in BagToSet(w.loops) : l.sess = c
    \/ w.calls[c].pc = "model"

AdCommit(w) ==
    /\ backend' = w.backend
    /\ sessions' = w.sessions
    /\ sess' = [c \in StartCalls |-> IF Reachable(w, c) THEN w.sess[c] ELSE NoSession]
    /\ calls' = w.calls
    /\ loops' = w.loops
    /\ installed' = w.installed
    /\ serverUp' = w.serverUp
    /\ tmuxNames' = w.tmuxNames
    /\ adEmitted' = w.emitted
    /\ stoppedOf' = w.stoppedOf
    /\ announced' = w.announced
    /\ polled' = w.polled
    /\ UNCHANGED nonAdVars

\* the texts that announce the model: `Model: <label>` and `Model: not set ...`
ModelTexts == {"model", "modelUnset"}

\* this.emit(type, userId, ...) on behalf of session s; what: the text emitted
emit(w, type, s, what) ==
    [w EXCEPT !.emitted = Append(@, [type |-> type, sess |-> s, what |-> what]),
              !.stoppedOf = IF type = "stopped" THEN @ \cup {s} ELSE @,
              !.announced = IF type = "output" /\ what \in ModelTexts
                            THEN @ \cup {s} ELSE @]

\* stopSession that leaves the timers of the session running
stopSession_keepsTimers(w) ==
    LET s == w.sessions
    IN  IF s = 0 THEN w
        ELSE emit([w EXCEPT !.sess[s].isActive = FALSE,
                            !.tmuxNames = IF w.backend = "claude"
                                          THEN @ \ {sessionName(userId)} ELSE @,
                            !.sessions = 0],
                  "stopped", s, "none")

\* stopSession of either adapter
stopSession(w) ==
    LET s == w.sessions
    IN  IF s = 0 THEN w
        ELSE emit([w EXCEPT !.sess[s].isActive = FALSE,
                            !.sess[s].pollTimer = FALSE,
                            !.sess[s].outputTimer = FALSE,
                            !.tmuxNames = IF w.backend = "claude"
                                          THEN @ \ {sessionName(userId)} ELSE @,
                            !.sessions = 0],
                  "stopped", s, "none")

\* checkIsActive of either adapter (w.tmuxNames is what tmux lists)
checkIsActive(w) ==
    IF w.sessions = 0 THEN FALSE
    ELSE IF w.backend = "claude"
    THEN Includes(tmuxListSessions(w.tmuxNames), sessionName(userId))
    ELSE w.sess[w.sessions].isActive

finish(w, c, pc) == [w EXCEPT !.calls[c].pc = pc]

\* ClaudeCliAdapter.startSession / resumeSession after the install check:
\* kill-session, new-session, send-keys, register, setInterval, 'started'
claudeLaunch(w, c, createOk) ==
    LET w1 == [w EXCEPT !.tmuxNames = @ \ {sessionName(userId)}]
    IN  IF ~createOk
        THEN finish(emit([w1 EXCEPT !.calls[c].failure = "create"],
                         "error", c, "none"),
                    c, "resolved")
        ELSE finish(emit([w1 EXCEPT !.tmuxNames = @ \cup {sessionName(userId)},
                                    !.sess[c] = [NewSession EXCEPT !.pollTimer = TRUE],
                                    !.sessions = c],
                         "started", c, "none"),
                    c, "resolved")

\* OpenCodeAdapter.sendPromptAsync
sendPromptAsync(w) ==
    IF w.sessions = 0 \/ ~w.sess[w.sessions].isActive THEN w
    ELSE [w EXCEPT !.sess[w.sessions].currentResponseText = FALSE]

\* startSession / resumeSession up to the first await
startSession(w, c, kind, args, createOk) ==
    LET w0 == [w EXCEPT !.calls[c] = [IdleCall EXCEPT !.kind = kind, !.args = args,
                                                      !.fresh = ~checkIsActive(w)]]
        w1 == stopSession(w0)
    IN  IF ~w1.installed
        THEN finish(emit(w1, "output", c, "install"), c, "install")
        ELSE IF w1.backend = "claude" THEN claudeLaunch(w1, c, createOk)
        ELSE finish(w1, c, "health")

\* await installTool(...) is over
afterInstall(w, c, ok, createOk) ==
    IF ~ok THEN finish([w EXCEPT !.calls[c].failure = "install"], c, "rejected")
    ELSE LET w1 == [w EXCEPT !.installed = TRUE]
         IN  IF w.backend = "claude" THEN claudeLaunch(w1, c, createOk)
             ELSE finish(w1, c, "health")

\* await checkIsOpenCodeServerRunning() is over
afterHealth(w, c) ==
    IF ~w.serverUp
    THEN finish(emit(w, "output", c, "server"), c, "server")
    ELSE finish(w, c, "create")

\* await ensureOpenCodeServer() is over
afterServer(w, c, ok) ==
    IF ~ok THEN finish([w EXCEPT !.calls[c].failure = "server"], c, "rejected")
    ELSE finish([w EXCEPT !.serverUp = TRUE], c, "create")

\* connectSse -> pollSse up to `await fetch(sseUrl)`
connectSse(w) ==
    IF w.sessions = 0 THEN w
    ELSE [w EXCEPT !.loops = @ (+) SetToBag({[sess |-> w.sessions, pc |-> "connect"]})]

\* OpenCodeAdapter: await apiRequest(POST /session | GET /session/id) is over
afterCreate(w, c, ok) ==
    IF ~ok THEN finish([w EXCEPT !.calls[c].failure = "create"], c, "rejected")
    ELSE LET w1 == connectSse([w EXCEPT !.sess[c] = NewSession, !.sessions = c])
         IN  IF w.calls[c].kind = "resume"
             THEN finish(emit(w1, "started", c, "none"), c, "resolved")
             ELSE finish(w1, c, "model")

\* fetchModelInfo after `await apiRequest(GET /config)`, then the rest of
\* startSession: the prompt of args and 'started'
afterModel(w, c, resolved) ==
    LET w1 == IF resolved
              THEN emit([w EXCEPT !.sess[c].isModelInfoShown = TRUE], "output", c, "model")
              ELSE emit(w, "output", c, "modelUnset")
        w2 == IF w.calls[c].args THEN sendPromptAsync(w1) ELSE w1
    IN  finish(emit(w2, "started", c, "none"), c, "resolved")

\* what a capture of the pane can show after cleaning and filtering
Captures == {"", "text", "status", "noise"}

\* ClaudeCliAdapter.pollOutput(userId), run by an interval timer: it reads the
\* session the map holds now
pollOutput(w, raw) ==
    LET s == w.sessions
        w0 == [w EXCEPT !.polled = [sess |-> s, raw |-> raw,
                                    wasListed |-> sessionName(userId) \in w.tmuxNames]]
    IN  IF s = 0 \/ ~w.sess[s].isActive THEN [w0 EXCEPT !.polled.raw = "none"]
        ELSE IF raw = ""
        THEN IF ~checkIsActive(w0)
             THEN emit(stopSession(w0), "closed", s, "none")
             ELSE w0
        ELSE IF raw = "text" THEN emit(w0, "output", s, "text")
        ELSE IF raw = "status" THEN emit(w0, "status", s, "none")
        ELSE w0

\* OpenCodeAdapter.flushOutput
flushOutput(w) ==
    LET s == w.sessions
    IN  IF s = 0 THEN w
        ELSE LET w1 == [w EXCEPT !.sess[s].outputTimer = FALSE]
                 w2 == IF w1.sess[s].currentResponseText
                       THEN emit(w1, "output", s, "text") ELSE w1
             IN  [w2 EXCEPT !.sess[s].currentResponseText = FALSE]

SseEvents == {"delta", "model", "finish", "error"}

\* OpenCodeAdapter.handleSseData for one event of the stream
handleSseData(w, ev) ==
    LET s == w.sessions
    IN  IF s = 0 \/ ~w.sess[s].isActive THEN w
        ELSE IF ev = "delta"
        THEN [w EXCEPT !.sess[s].currentResponseText = TRUE,
                       !.sess[s].outputTimer = TRUE]
        ELSE IF ev = "model"
        THEN IF ~w.sess[s].isModelInfoShown
             THEN emit([w EXCEPT !.sess[s].isModelInfoShown = TRUE], "output", s, "model")
             ELSE w
        ELSE IF ev = "finish" THEN flushOutput(w)
        ELSE emit(w, "output", s, "error")

\* a pollSse activation l moves to position pc; one that returned is dropped
moveLoop(w, l, pc) ==
    LET rest == w.loops (-) SetToBag({l})
    IN  [w EXCEPT !.loops = IF pc = "ended" THEN rest
                            ELSE rest (+) SetToBag({[l EXCEPT !.pc = pc]})]

\* pollSse: the catch block
sseCatch(w, l) ==
    moveLoop(w, l, IF w.sess[l.sess].isActive THEN "retryWait" ELSE "ended")

\* pollSse: a reconnect timer that reconnects whatever became of the session
sseRetry_unchecked(w, l) == connectSse(moveLoop(w, l, "ended"))

\* pollSse: the callback of the reconnect timer (pollSse binds to the session
\* the map holds now)
sseRetry(w, l) ==
    LET w1 == moveLoop(w, l, "ended")
    IN  IF w1.sess[l.sess].isActive THEN connectSse(w1) ELSE w1

\* pollSse: the loop condition before the next reader.read()
sseLoop(w, l) ==
    moveLoop(w, l, IF w.sess[l.sess].isActive THEN "read" ELSE "ended")

(***************************************************************************)
(* Actions of the adapters                                                 *)
(***************************************************************************)
NextCall == Cardinality({c \in StartCalls : calls[c].pc # "idle"}) + 1

\* the bot calls adapter.startSession or adapter.resumeSession
StartSession ==
    /\ NextCall \in StartCalls
    /\ \E kind \in {"start", "resume"}, args \in BOOLEAN, createOk \in BOOLEAN :
         /\ (kind = "resume") => ~args
         /\ (backend = "opencode" \/ ~installed) => createOk
         /\ AdCommit(startSession(AdWorld, NextCall, kind, args, createOk))

\* the bot calls adapter.stopSession (/stop, shutdown), with or without a
\* session of the user
StopSession == AdCommit(stopSession(AdWorld))

InstallDone ==
    \E c \in StartCalls, ok \in BOOLEAN, createOk \in BOOLEAN :
        /\ calls[c].pc = "install"
        /\ (backend = "opencode" \/ ~ok) => createOk
        /\ AdCommit(afterInstall(AdWorld, c, ok, createOk))

HealthDone ==
    \E c \in StartCalls :
        /\ calls[c].pc = "health"
        /\ AdCommit(afterHealth(AdWorld, c))

ServerDone ==
    \E c \in StartCalls, ok \in BOOLEAN :
        /\ calls[c].pc = "server"
        /\ AdCommit(afterServer(AdWorld, c, ok))

CreateDone ==
    \E c \in StartCalls, ok \in BOOLEAN :
        /\ calls[c].pc = "create"
        /\ AdCommit(afterCreate(AdWorld, c, ok))

ModelDone ==
    \E c \in StartCalls, resolved \in BOOLEAN :
        /\ calls[c].pc = "model"
        /\ AdCommit(afterModel(AdWorld, c, resolved))

\* an interval timer fires
PollTick ==
    \E t \in StartCalls, raw \in Captures :
        /\ sess[t].pollTimer
        /\ (raw # "") => sessionName(userId) \in tmuxNames
        /\ AdCommit(pollOutput(AdWorld, raw))

\* the terminal session of the user ends on its own
TmuxExit ==
    /\ backend = "claude"
    /\ sessionName(userId) \in tmuxNames
    /\ AdCommit([AdWorld EXCEPT !.tmuxNames = @ \ {sessionName(userId)}])

\* the other user's terminal session comes and goes
OtherUserTmux ==
    /\ backend = "claude"
    /\ AdCommit([AdWorld EXCEPT !.tmuxNames =
                    IF sessionName(otherUserId) \in @
                    THEN @ \ {sessionName(otherUserId)}
                    ELSE @ \cup {sessionName(otherUserId)}])

\* pollSse: `await fetch(sseUrl)` is over
SseConnected ==
    \E l \in BagToSet(loops), res \in {"ok", "notOk", "throw"} :
        /\ l.pc = "connect"
        /\ AdCommit(IF res = "ok" THEN sseLoop(AdWorld, l)
                    ELSE IF res = "notOk" THEN moveLoop(AdWorld, l, "ended")
                    ELSE sseCatch(AdWorld, l))

\* pollSse: `await reader.read()` returns one event, the end of the stream, or
\* throws
SseRead ==
    \E l \in BagToSet(loops), ev \in SseEvents \cup {"done", "throw"} :
        /\ l.pc = "read"
        /\ AdCommit(IF ev = "done" THEN moveLoop(AdWorld, l, "ended")
                    ELSE IF ev = "throw" THEN sseCatch(AdWorld, l)
                    ELSE sseLoop(handleSseData(AdWorld, ev), l))

\* pollSse: the reconnect timer fires
SseReconnect ==
    \E l \in BagToSet(loops) :
        /\ l.pc = "retryWait"
        /\ AdCommit(sseRetry(AdWorld, l))

\* the timer of handlePartUpdate fires
OutputTimerFire ==
    \E s \in StartCalls :
        /\ sess[s].outputTimer
        /\ LET w == [AdWorld EXCEPT !.sess[s].outputTimer = FALSE]
           IN  AdCommit(IF w.sess[s].currentResponseText
                        THEN emit(w, "output", s, "text") ELSE w)

(***************************************************************************)
(* Text functions of the terminal backend (claudeCliAdapter.ts).  A string *)
(* is a sequence of characters; an escape sequence and the head of a URL   *)
(* are one element each.                                                   *)
(***************************************************************************)
BoldOn == "ESC[1m"          \* \x1B[1m
BoldOff == "ESC[0m"         \* \x1B[0m, \x1B[22m
OtherAnsi == "ESC[31m"      \* any other escape sequence
UrlHead == "http://"        \* https?://
MarkOn == "x01"             \* the marker \x01
MarkOff == "x02"            \* the marker \x02
Newline == "\n"
Return == "\r"
Tab == "\t"
Space == " "

\* \s of a JavaScript regular expression, and what trim() removes
WhiteSpace == {Space, Newline, Return, Tab}

\* [\x00-\x09\x0b\x0c\x0e-\x1f\x7f]
ControlChars == {Tab, MarkOn, MarkOff}

\* [\w\-._~:/?#\[\]@!$&'()*+,;=%]
UrlChars == {"a", "A", "B", "*", UrlHead}

RECURSIVE TrimStart(_)
TrimStart(s) ==
    IF s # <<>> /\ Head(s) \in WhiteSpace THEN TrimStart(Tail(s)) ELSE s

RECURSIVE TrimEnd(_)
TrimEnd(s) ==
    IF s # <<>> /\ s[Len(s)] \in WhiteSpace THEN TrimEnd(SubSeq(s, 1, Len(s) - 1)) ELSE s

\* String.prototype.trim
Trim(s) == TrimEnd(TrimStart(s))

\* the index of the first element of s that is in set cs, 0 if none
RECURSIVE IndexOf(_, _)
IndexOf(s, cs) ==
    IF s = <<>> THEN 0
    ELSE IF Head(s) \in cs THEN 1
    ELSE LET k == IndexOf(Tail(s), cs) IN IF k = 0 THEN 0 ELSE k + 1

\* text.split('\n'): always at least one line
RECURSIVE SplitLines(_)
SplitLines(s) ==
    LET k == IndexOf(s, {Newline})
    IN  IF k = 0 THEN <<s>>
        ELSE <<SubSeq(s, 1, k - 1)>> \o SplitLines(SubSeq(s, k + 1, Len(s)))

\* lines.join('\n')
RECURSIVE JoinLines(_)
JoinLines(ls) ==
    IF ls = <<>> THEN <<>>
    ELSE IF Len(ls) = 1 THEN ls[1]
    ELSE ls[1] \o <<Newline>> \o JoinLines(Tail(ls))

\* s.replace(/[cs]/g, '')
RECURSIVE RemoveAll(_, _)
RemoveAll(s, cs) ==
    IF s = <<>> THEN <<>>
    ELSE (IF Head(s) \in cs THEN <<>> ELSE <<Head(s)>>) \o RemoveAll(Tail(s), cs)

\* convertAnsiToMarkdown step 1 and 2: bold on/off become markers, every other
\* escape sequence goes
RECURSIVE markBold(_)
markBold(s) ==
    IF s = <<>> THEN <<>>
    ELSE (IF Head(s) = BoldOn THEN <<MarkOn>>
          ELSE IF Head(s) = BoldOff THEN <<MarkOff>>
          ELSE IF Head(s) = OtherAnsi THEN <<>>
          ELSE <<Head(s)>>) \o markBold(Tail(s))

\* convertAnsiToMarkdown step 3: /\x01([^\x01\x02]*)\x02/g
RECURSIVE closeBold(_)
closeBold(s) ==
    IF s = <<>> THEN <<>>
    ELSE IF Head(s) = MarkOn
    THEN LET k == IndexOf(Tail(s), {MarkOn, MarkOff})
         IN  IF k # 0 /\ Tail(s)[k] = MarkOff
             THEN LET content == SubSeq(Tail(s), 1, k - 1)
                      trimmed == Trim(content)
                  IN  (IF trimmed # <<>> THEN <<"*">> \o trimmed \o <<"*">> ELSE content)
                      \o closeBold(SubSeq(Tail(s), k + 1, Len(s) - 1))
             ELSE <<MarkOn>> \o closeBold(Tail(s))
    ELSE <<Head(s)>> \o closeBold(Tail(s))

\* convertAnsiToMarkdown, unclosed bold: /\x01([^\x01\x02]+)$/gm -> '*$1*'.
\* The group is the longest run after the marker that ends at the end of a line
RECURSIVE unclosedBold(_)
unclosedBold(s) ==
    IF s = <<>> THEN <<>>
    ELSE IF Head(s) = MarkOn
    THEN LET rest == Tail(s)
             m == IndexOf(rest, {MarkOn, MarkOff})
             run == IF m = 0 THEN Len(rest) ELSE m - 1
             ends == {k \in 1..run :
                        \/ k = Len(rest)
                        \/ (k < run /\ rest[k + 1] \in {Newline, Return})}
         IN  IF ends # {}
             THEN LET k == CHOOSE x \in ends : \A y \in ends : y <= x
                  IN  <<"*">> \o SubSeq(rest, 1, k) \o <<"*">>
                      \o unclosedBold(SubSeq(rest, k + 1, Len(rest)))
             ELSE <<MarkOn>> \o unclosedBold(rest)
    ELSE <<Head(s)>> \o unclosedBold(Tail(s))

\* convertAnsiToMarkdown, last step: /\*\*/g -> '* *'
RECURSIVE separateBold(_)
separateBold(s) ==
    IF Len(s) < 2 THEN s
    ELSE IF s[1] = "*" /\ s[2] = "*"
    THEN <<"*", Space, "*">> \o separateBold(SubSeq(s, 3, Len(s)))
    ELSE <<Head(s)>> \o separateBold(Tail(s))

convertAnsiToMarkdown(text) ==
    separateBold(RemoveAll(unclosedBold(closeBold(markBold(text))), {MarkOn, MarkOff}))

\* .replace(/\r\n/g, '\n').replace(/\r/g, '\n')
RECURSIVE normalizeNewlines(_)
normalizeNewlines(s) ==
    IF s = <<>> THEN <<>>
    ELSE IF Head(s) = Return
    THEN IF Len(s) >= 2 /\ s[2] = Newline
         THEN <<Newline>> \o normalizeNewlines(SubSeq(s, 3, Len(s)))
         ELSE <<Newline>> \o normalizeNewlines(Tail(s))
    ELSE <<Head(s)>> \o normalizeNewlines(Tail(s))

\* line.match(/(https?:\/\/\S*)$/): where the URL at the end of the line starts,
\* 0 if the line does not end in a URL
urlStart(line) ==
    LET starts == {i \in 1..Len(line) :
                     /\ line[i] = UrlHead
                     /\ \A j \in i..Len(line) : line[j] \notin WhiteSpace}
    IN  IF starts = {} THEN 0 ELSE CHOOSE i \in starts : \A j \in starts : i <= j

\* joinBrokenUrls: may a following line be the continuation of a URL
isUrlTail(line) ==
    LET nextLine == Trim(line)
    IN  /\ nextLine # <<>>
        /\ \A i \in 1..Len(nextLine) : nextLine[i] # Space /\ nextLine[i] \in UrlChars

\* joinBrokenUrls: fullUrl += nextLine for the lines j..last
RECURSIVE urlTails(_, _, _)
urlTails(lines, j, last) ==
    IF j > last THEN <<>> ELSE Trim(lines[j]) \o urlTails(lines, j + 1, last)

\* joinBrokenUrls: the loop over the lines, i being the line looked at
RECURSIVE joinUrlLines(_, _)
joinUrlLines(lines, i) ==
    IF i > Len(lines) THEN <<>>
    ELSE IF urlStart(lines[i]) # 0
    THEN LET tails == {j \in (i + 1)..Len(lines) :
                         \A k \in (i + 1)..j : isUrlTail(lines[k])}
             last == IF tails = {} THEN i ELSE CHOOSE j \in tails : \A k \in tails : k <= j
         IN  <<lines[i] \o urlTails(lines, i + 1, last)>> \o joinUrlLines(lines, last + 1)
    ELSE <<lines[i]>> \o joinUrlLines(lines, i + 1)

joinBrokenUrls(text) == JoinLines(joinUrlLines(SplitLines(text), 1))

\* .replace(/\n{3,}/g, '\n\n')
RECURSIVE newlineRun(_)
newlineRun(s) == IF s # <<>> /\ Head(s) = Newline THEN 1 + newlineRun(Tail(s)) ELSE 0

RECURSIVE collapseNewlines(_)
collapseNewlines(s) ==
    IF s = <<>> THEN <<>>
    ELSE IF Head(s) = Newline
    THEN LET run == newlineRun(s)
         IN  (IF run >= 3 THEN <<Newline, Newline>> ELSE SubSeq(s, 1, run))
             \o collapseNewlines(SubSeq(s, run + 1, Len(s)))
    ELSE <<Head(s)>> \o collapseNewlines(Tail(s))

\* cleanOutput's filter: line => line.trim() || line === ''
keepLine(line) == Trim(line) # <<>> \/ line = <<>>

cleanOutput(text) ==
    LET ansi == convertAnsiToMarkdown(text)
        stripped == RemoveAll(ansi, ControlChars)
        unix == normalizeNewlines(stripped)
        joined == joinBrokenUrls(unix)
        collapsed == collapseNewlines(joined)
        kept == JoinLines(SelectSeq(SplitLines(collapsed), keepLine))
    IN  Trim(kept)

(***************************************************************************)
(* cleanOutput applied to a capture, and again to its own result           *)
(***************************************************************************)
CleanChars == {"a", Space, Newline, Return, Tab, "*", BoldOn, BoldOff, OtherAnsi, UrlHead}

RECURSIVE TextsOver(_, _)
TextsOver(cs, n) ==
    IF n = 0 THEN {<<>>}
    ELSE LET shorter == TextsOver(cs, n - 1)
         IN  shorter \cup {Append(t, c) : t \in {x \in shorter : Len(x) = n - 1}, c \in cs}

IdleClean ==
    /\ rawText = <<>>
    /\ cleanedOnce = <<>>
    /\ cleanedTwice = <<>>
    /\ passes = 0

\* content = cleanOutput(raw)
CleanOutput ==
    /\ passes = 0
    /\ cleanedOnce' = cleanOutput(rawText)
    /\ passes' = 1
    /\ UNCHANGED <<rawText, cleanedTwice>>
    /\ UNCHANGED nonCleanVars

\* cleanOutput applied to the content it returned
CleanAgain ==
    /\ passes = 1
    /\ cleanedTwice' = cleanOutput(cleanedOnce)
    /\ passes' = 2
    /\ UNCHANGED <<rawText, cleanedOnce>>
    /\ UNCHANGED nonCleanVars

NextClean ==
    \/ CleanOutput
    \/ CleanAgain

(***************************************************************************)
(* getNewContent of two snapshots                                          *)
(***************************************************************************)
BlackCircle == "U+25CF"     \* the glyph of a running tool call
WhiteCircle == "U+25CB"
Hourglass == "U+23F3"
CheckMark == "U+2713"
MiddleDot == "U+00B7"       \* a spinner glyph
Ellipsis == "U+2026"

\* line.trim().replace(/^[●○⏳✓]\s*/, '')
normalizeForComparison(line) ==
    LET trimmed == Trim(line)
    IN  IF trimmed # <<>> /\ Head(trimmed) \in {BlackCircle, WhiteCircle, Hourglass, CheckMark}
        THEN TrimStart(Tail(trimmed))
        ELSE trimmed

\* getNewContent: oldLinesSet, the count of every non-empty normalized line
RECURSIVE oldLinesSet(_)
oldLinesSet(oldLines) ==
    IF oldLines = <<>> THEN EmptyBag
    ELSE LET normalized == normalizeForComparison(Head(oldLines))
         IN  (IF normalized # <<>> THEN SetToBag({normalized}) ELSE EmptyBag)
             (+) oldLinesSet(Tail(oldLines))

\* a variant of newParts that drops every line the old snapshot holds at all
RECURSIVE newParts_asSet(_, _, _, _)
newParts_asSet(oldCounts, newLines, i, usedOldLines) ==
    IF i > Len(newLines) THEN <<>>
    ELSE LET normalized == normalizeForComparison(newLines[i])
         IN  IF normalized = <<>> \/ CopiesIn(normalized, oldCounts) > 0
             THEN newParts_asSet(oldCounts, newLines, i + 1, usedOldLines)
             ELSE <<newLines[i]>> \o newParts_asSet(oldCounts, newLines, i + 1, usedOldLines)

\* getNewContent: the loop over newLines, i being the line looked at
RECURSIVE newParts(_, _, _, _)
newParts(oldCounts, newLines, i, usedOldLines) ==
    IF i > Len(newLines) THEN <<>>
    ELSE LET line == newLines[i]
             normalized == normalizeForComparison(line)
         IN  IF normalized = <<>>
             THEN newParts(oldCounts, newLines, i + 1, usedOldLines)
             ELSE IF CopiesIn(normalized, usedOldLines) < CopiesIn(normalized, oldCounts)
             THEN newParts(oldCounts, newLines, i + 1,
                           usedOldLines (+) SetToBag({normalized}))
             ELSE <<line>> \o newParts(oldCounts, newLines, i + 1, usedOldLines)

getNewContent(old, new) ==
    IF old = <<>> THEN new
    ELSE IF old = new THEN <<>>
    ELSE Trim(JoinLines(newParts(oldLinesSet(SplitLines(old)), SplitLines(new),
                                 1, EmptyBag)))

\* the lines a snapshot is made of here
DiffLines == {<<>>, <<"A">>, <<"B">>, <<BlackCircle, Space, "A">>, <<Space, "A">>}

\* the texts of at most n lines taken from ls
TextsOfLines(ls, n) ==
    {JoinLines(t) : t \in UNION {[1..k -> ls] : k \in 1..n}}

\* a snapshot is a text cleanOutput returns
Snapshots == {s \in TextsOfLines(DiffLines, MaxDiffLines) : cleanOutput(s) = s}

IdleDiff ==
    /\ oldContent = <<>>
    /\ newContent = <<>>
    /\ newPart = <<>>
    /\ diffDone = FALSE

\* pollOutput: newPart = this.getNewContent(session.lastContent, content)
GetNewContent ==
    /\ ~diffDone
    /\ newPart' = getNewContent(oldContent, newContent)
    /\ diffDone' = TRUE
    /\ UNCHANGED <<oldContent, newContent>>
    /\ UNCHANGED nonDiffVars

NextDiff == GetNewContent

(***************************************************************************)
(* pollOutput: a chunk is classified and a status chunk is deduplicated    *)
(***************************************************************************)
Word == <<"w", "o", "r", "d">>
Tokens == <<"t", "o", "k", "e", "n", "s">>
ThoughtFor == <<"t", "h", "o", "u", "g", "h", "t", " ", "f", "o", "r", " ">>
DownArrow == "U+2193"

\* [а-яёa-z] with the i flag: the letters the texts of the model are written in
Letters == {"w", "o", "r", "d", "t", "k", "e", "n", "s", "h", "u", "g", "f", "m", "x"}

\* \d
Digits == {"1", "3"}

\* \w, for \b
WordChars == Letters \cup Digits \cup {"_"}
maxStatusLength == 200
maxStatusLines == 3
shortLineLength == 40

\* [✻✽✶✢·*●○]
SpinnerGlyphs == {"*", MiddleDot, BlackCircle, WhiteCircle}

\* [├└│─]
TreeChars == {"U+251C", "U+2514", "U+2502", "U+2500"}

\* how many elements of s from index i on are in cs
RECURSIVE classRun(_, _, _)
classRun(s, i, cs) ==
    IF i <= Len(s) /\ s[i] \in cs THEN 1 + classRun(s, i + 1, cs) ELSE 0

\* /[а-яёa-z]{3,}\s+[а-яёa-z]{3,}/i: a run of white space with three letters
\* right before it and three letters right after it
sentenceLike(line) ==
    \E p \in 4..Len(line) :
        /\ line[p] \in WhiteSpace
        /\ \A k \in (p - 3)..(p - 1) : line[k] \in Letters
        /\ LET q == p + classRun(line, p, WhiteSpace)
           IN  /\ q + 2 <= Len(line)
               /\ \A k \in q..(q + 2) : line[k] \in Letters

\* /\d+[smh]\b.*[·↓]|↓\s*[\d.]+k?\s*tokens|thought for \d/i
progressStats(line) ==
    \/ \E i \in 1..(Len(line) - 1) :
          /\ line[i] \in Digits
          /\ line[i + 1] \in {"s", "m", "h"}
          /\ (i + 2 > Len(line) \/ line[i + 2] \notin WordChars)
          /\ \E j \in (i + 2)..Len(line) : line[j] \in {MiddleDot, DownArrow}
    \/ \E i \in 1..Len(line) :
          /\ line[i] = DownArrow
          /\ LET a == i + 1 + classRun(line, i + 1, WhiteSpace)
                 n == classRun(line, a, Digits \cup {"."})
                 b == IF a + n <= Len(line) /\ line[a + n] = "k"
                      THEN a + n + 1 ELSE a + n
                 c == b + classRun(line, b, WhiteSpace)
             IN  /\ n >= 1
                 /\ c + Len(Tokens) - 1 <= Len(line)
                 /\ SubSeq(line, c, c + Len(Tokens) - 1) = Tokens
    \/ \E i \in 1..(Len(line) - Len(ThoughtFor)) :
          /\ SubSeq(line, i, i + Len(ThoughtFor) - 1) = ThoughtFor
          /\ line[i + Len(ThoughtFor)] \in Digits

nonBlank(line) == Trim(line) # <<>>

\* line => { ... } of checkIsStatusOutput
statusLine(line) ==
    LET trimmed == Trim(line)
    IN  \/ Head(trimmed) \in TreeChars
        \/ \E k \in 1..Len(trimmed) : trimmed[k] = Ellipsis
        \/ progressStats(trimmed)
        \/ Len(trimmed) < shortLineLength /\ ~sentenceLike(trimmed)

\* checkIsStatusOutput without the test of the chunk's length
checkIsStatusOutput_anyLength(text) ==
    LET lines == SelectSeq(SplitLines(text), nonBlank)
    IN  /\ Len(lines) # 0
        /\ Len(lines) <= maxStatusLines
        /\ \A n \in 1..Len(lines) : statusLine(lines[n])

checkIsStatusOutput(text) ==
    IF Len(text) > maxStatusLength THEN FALSE
    ELSE LET lines == SelectSeq(SplitLines(text), nonBlank)
         IN  /\ Len(lines) # 0
             /\ Len(lines) <= maxStatusLines
             /\ \A n \in 1..Len(lines) : statusLine(lines[n])

\* how many leading elements of s are white space
RECURSIVE spaceRun(_)
spaceRun(s) == IF s # <<>> /\ Head(s) \in WhiteSpace THEN 1 + spaceRun(Tail(s)) ELSE 0

\* cleanedOutput.replace(/^[✻✽✶✢·*●○]\s*/gm, ''); atLineStart: ^ matches here
RECURSIVE stripSpinner(_, _)
stripSpinner(s, atLineStart) ==
    IF s = <<>> THEN <<>>
    ELSE IF atLineStart /\ Head(s) \in SpinnerGlyphs
    THEN LET n == spaceRun(Tail(s))
         IN  stripSpinner(SubSeq(s, n + 2, Len(s)), n > 0 /\ s[n + 1] = Newline)
    ELSE <<Head(s)>> \o stripSpinner(Tail(s), Head(s) = Newline)

\* stripTuiElements drops a line made of white space and spinner glyphs only:
\* /^[\s·✽✢✶✻⏵❯─━↵]+$/
isTuiLine(line) ==
    /\ line # <<>>
    /\ \A k \in 1..Len(line) : line[k] \in WhiteSpace \cup {MiddleDot}

\* the lines a chunk is made of here
StatusLines ==
    {<<>>, <<"*">>, Word, <<"*", Space>> \o Word, <<MiddleDot, Space>> \o Word,
     <<Space>> \o Word, Word \o <<Space>> \o Word}

\* a chunk is a non-empty text stripTuiElements returns
StatusChunks ==
    {c \in TextsOfLines(StatusLines, MaxChunkLines) :
        /\ c # <<>>
        /\ Trim(c) = c
        /\ collapseNewlines(c) = c
        /\ \A n \in 1..Len(SplitLines(c)) : ~isTuiLine(SplitLines(c)[n])}

\* one line without its leading spinner glyph; blanks: and without the blanks
\* that follow the glyph
stripLineGlyph(line, blanks) ==
    IF line # <<>> /\ Head(line) \in SpinnerGlyphs
    THEN IF blanks THEN TrimStart(Tail(line)) ELSE Tail(line)
    ELSE line

\* a text with the leading spinner glyph of each line removed
stripGlyphOfEachLine(text, blanks) ==
    LET lines == SplitLines(text)
    IN  JoinLines([n \in 1..Len(lines) |-> stripLineGlyph(lines[n], blanks)])

NoStatus == [kind |-> "none"]

IdleStatus ==
    /\ lastStatusText = <<>>
    /\ cleanedOutput = <<>>
    /\ pollEvent = "none"
    /\ lastChunk = NoStatus
    /\ polls = 0

\* pollOutput from `if (cleanedOutput)` on, for the chunk c
PollChunk ==
    \E c \in StatusChunks :
        /\ polls < MaxPolls
        /\ polls' = polls + 1
        /\ cleanedOutput' = c
        /\ IF checkIsStatusOutput(c)
           THEN LET normalized == stripSpinner(c, TRUE)
                IN  /\ lastChunk' = [kind |-> "status",
                                     bare |-> stripGlyphOfEachLine(c, FALSE),
                                     tight |-> stripGlyphOfEachLine(c, TRUE)]
                    /\ IF normalized # lastStatusText
                       THEN lastStatusText' = normalized /\ pollEvent' = "status"
                       ELSE lastStatusText' = lastStatusText /\ pollEvent' = "none"
           ELSE /\ lastChunk' = [kind |-> "output"]
                /\ lastStatusText' = <<>>
                /\ pollEvent' = "output"
        /\ UNCHANGED nonStatusVars

NextStatus == PollChunk

\* n times the character c
Fill(c, n) == [k \in 1..n |-> c]

\* the lines a classified chunk is made of: short and long ones, with and
\* without each of the shapes checkIsStatusOutput looks for
ClassLines ==
    {<<>>,
     Word,
     Word \o <<Space>> \o Word,
     <<"U+251C", Space>> \o Word \o <<Space>> \o Word,
     <<Space, Space, "U+2514", Space>> \o Word \o <<Space>> \o Word,
     Word \o <<Space>> \o Word \o <<Ellipsis>>,
     <<"3", "s", Space, MiddleDot, Space>> \o Word \o <<Space>> \o Word,
     <<DownArrow, Space, "1", "k", Space>> \o Tokens \o <<Space>> \o Word,
     ThoughtFor \o <<"3">>,
     Fill("x", shortLineLength - 1),
     Fill("x", shortLineLength),
     <<Ellipsis>> \o Fill("x", 65),
     <<Ellipsis>> \o Fill("x", 66)}

\* a chunk of at most n lines is a non-empty text stripTuiElements returns
ClassChunks(n) ==
    {c \in TextsOfLines(ClassLines, n) :
        /\ c # <<>>
        /\ Head(c) \notin WhiteSpace
        /\ c[Len(c)] \notin WhiteSpace
        /\ \A k \in 1..(Len(c) - 2) : SubSeq(c, k, k + 2) # <<Newline, Newline, Newline>>}

(***************************************************************************)
(* adapters/openCodeAdapter.ts: the events of the stream and the response  *)
(* buffer of one active session                                            *)
(***************************************************************************)
sseOutputBatchMs == 500

NoTimer == -1
NoLabel == "none"

\* the session ids an event can carry: none, session.sessionId, another one
Sids == {"none", "mine", "other"}

\* the state of the session, as one value the handlers below transform
SseSession ==
    [currentResponseText |-> responseText, outputTimer |-> timerDue,
     isModelInfoShown |-> modelShown, currentModelLabel |-> modelLabel,
     emitted |-> <<>>]

\* this.emit('output', userId, text)
emitOutput(s, text) == [s EXCEPT !.emitted = Append(@, text)]

\* a lookup that reads properties.sessionID only
getSessionIdFromEvent_propsOnly(e) == e.sessionID

getSessionIdFromEvent(e) ==
    IF e.sessionID # "none" THEN e.sessionID
    ELSE IF e.partSid # "none" THEN e.partSid
    ELSE IF e.infoSid # "none" THEN e.infoSid
    ELSE "none"

\* a debounce that leaves a pending timer alone
handlePartUpdate_leading(s, e, t) ==
    IF e.partType \notin {"none", "text"} THEN s
    ELSE IF e.delta = <<>> THEN s
    ELSE [s EXCEPT !.currentResponseText = @ \o e.delta,
                   !.outputTimer = IF @ # NoTimer THEN @ ELSE t + sseOutputBatchMs]

\* handlePartUpdate at time t
handlePartUpdate(s, e, t) ==
    IF e.partType \notin {"none", "text"} THEN s
    ELSE IF e.delta = <<>> THEN s
    ELSE [s EXCEPT !.currentResponseText = @ \o e.delta,
                   !.outputTimer = t + sseOutputBatchMs]

\* the callback of the timer handlePartUpdate sets
outputTimerCallback(s) ==
    LET s1 == [s EXCEPT !.outputTimer = NoTimer]
    IN  IF nonBlank(s1.currentResponseText)
        THEN emitOutput(s1, s1.currentResponseText)
        ELSE s1

\* flushOutput on the session record
flushResponseText(s) ==
    LET s1 == [s EXCEPT !.outputTimer = NoTimer]
        s2 == IF nonBlank(s1.currentResponseText)
              THEN emitOutput(s1, s1.currentResponseText)
              ELSE s1
    IN  [s2 EXCEPT !.currentResponseText = <<>>]

handleMessageUpdate(s, e) ==
    IF ~e.info THEN s
    ELSE LET s1 == IF e.role = "assistant" /\ e.modelID # NoLabel
                   THEN LET a == [s EXCEPT !.currentModelLabel = e.modelID]
                        IN  IF ~a.isModelInfoShown
                            THEN emitOutput([a EXCEPT !.isModelInfoShown = TRUE],
                                            <<"Model: ", e.modelID>>)
                            ELSE a
                   ELSE s
             s2 == IF e.finish /\ e.role = "assistant"
                   THEN flushResponseText(s1) ELSE s1
         IN  IF e.error THEN emitOutput(s2, <<"Error: ">>) ELSE s2

handleSessionIdle(s, e) ==
    IF e.sessionID # "none" /\ e.sessionID # "mine" THEN s
    ELSE flushResponseText(s)

handleSessionError(s, e) == emitOutput(s, <<"OpenCode error: ">>)

\* handleSseData for the parsed event e at time t, the session being active
handleSseEvent(s, e, t) ==
    LET eventSessionId == getSessionIdFromEvent(e)
    IN  IF eventSessionId # "none" /\ eventSessionId # "mine" THEN s
        ELSE CASE e.type = "message.part.updated" -> handlePartUpdate(s, e, t)
               [] e.type = "message.updated" -> handleMessageUpdate(s, e)
               [] e.type = "session.idle" -> handleSessionIdle(s, e)
               [] e.type = "session.error" -> handleSessionError(s, e)
               [] OTHER -> s

\* sendPromptAsync on the session record
resetResponseText(s) == [s EXCEPT !.currentResponseText = <<>>]

\* what an event says beside the session ids it carries
NoBody ==
    [type |-> "server.heartbeat", partType |-> "none", delta |-> <<>>,
     info |-> FALSE, role |-> "none", modelID |-> NoLabel, finish |-> FALSE,
     error |-> FALSE]

SseBodies ==
    {[NoBody EXCEPT !.type = "message.part.updated", !.partType = p, !.delta = d] :
        p \in {"none", "text", "tool"}, d \in {<<>>, <<"a">>, <<Space>>}}
    \cup {[NoBody EXCEPT !.type = "message.updated"]}
    \cup {[NoBody EXCEPT !.type = "message.updated", !.info = TRUE, !.role = r,
                         !.modelID = m, !.finish = f, !.error = x] :
            r \in {"assistant", "user"}, m \in {NoLabel, "m1"},
            f \in BOOLEAN, x \in BOOLEAN}
    \cup {[NoBody EXCEPT !.type = ty] :
            ty \in {"session.idle", "session.error", "permission.asked",
                    "server.heartbeat"}}

\* where an event carries session ids: properties.sessionID, part.sessionID,
\* info.sessionID; the ids of one event name one session
SidPlaces ==
    {p \in [sessionID : Sids, partSid : Sids, infoSid : Sids] :
        Cardinality({p.sessionID, p.partSid, p.infoSid} \ {"none"}) <= 1}

\* the events the shared stream delivers
SseStream ==
    {[type |-> b.type, partType |-> b.partType, delta |-> b.delta,
      info |-> b.info, role |-> b.role, modelID |-> b.modelID,
      finish |-> b.finish, error |-> b.error,
      sessionID |-> p.sessionID, partSid |-> p.partSid, infoSid |-> p.infoSid] :
        b \in SseBodies, p \in SidPlaces}

\* the session id an event carries
CarriedId(e) ==
    IF "other" \in {e.sessionID, e.partSid, e.infoSid} THEN "other"
    ELSE IF "mine" \in {e.sessionID, e.partSid, e.infoSid} THEN "mine"
    ELSE "none"

\* a text delta of this session
IsTextDelta(e) ==
    /\ e.type = "message.part.updated"
    /\ e.partType \in {"none", "text"}
    /\ e.delta # <<>>
    /\ CarriedId(e) # "other"

\* a message-completed or session-idle event of this session
IsCompletion(e) ==
    /\ CarriedId(e) # "other"
    /\ \/ e.type = "session.idle"
       \/ e.type = "message.updated" /\ e.info /\ e.finish /\ e.role = "assistant"

NoStep == [op |-> "none", type |-> "none", sid |-> "none", text |-> FALSE,
           completion |-> FALSE]

IdleSse ==
    /\ sseNow = 0
    /\ responseText = <<>>
    /\ timerDue = NoTimer
    /\ modelShown = FALSE
    /\ modelLabel = NoLabel
    /\ sseOut = <<>>
    /\ sseStep = NoStep
    /\ lastDeltaAt = 0
    /\ deltas = <<>>
    /\ debounced = FALSE

SseCommit(s) ==
    /\ responseText' = s.currentResponseText
    /\ timerDue' = s.outputTimer
    /\ modelShown' = s.isModelInfoShown
    /\ modelLabel' = s.currentModelLabel
    /\ sseOut' = s.emitted
    /\ UNCHANGED nonSseVars

\* pollSse hands one event of the stream to handleSseData
SseEvent ==
    \E e \in SseStream :
        LET s == handleSseEvent(SseSession, e, sseNow)
        IN  /\ Len(s.currentResponseText) <= MaxBuffer
            /\ SseCommit(s)
            /\ sseStep' = [op |-> "event", type |-> e.type, sid |-> CarriedId(e),
                           text |-> IsTextDelta(e), completion |-> IsCompletion(e)]
            /\ lastDeltaAt' = IF IsTextDelta(e) THEN sseNow ELSE lastDeltaAt
            /\ deltas' = IF IsTextDelta(e) THEN deltas \o e.delta
                         ELSE IF IsCompletion(e) THEN <<>>
                         ELSE deltas
            /\ debounced' = IF IsTextDelta(e) \/ IsCompletion(e) THEN FALSE
                            ELSE debounced
            /\ UNCHANGED sseNow

\* the timer of handlePartUpdate fires, at its time or later
SseTimerFire ==
    /\ timerDue # NoTimer
    /\ sseNow >= timerDue
    /\ SseCommit(outputTimerCallback(SseSession))
    /\ sseStep' = [NoStep EXCEPT !.op = "timer"]
    /\ debounced' = nonBlank(responseText)
    /\ UNCHANGED <<sseNow, lastDeltaAt, deltas>>

\* the user sends a prompt: sendInput -> sendPromptAsync
SseSendInput ==
    /\ SseCommit(resetResponseText(SseSession))
    /\ sseStep' = [NoStep EXCEPT !.op = "input"]
    /\ deltas' = <<>>
    /\ debounced' = FALSE
    /\ UNCHANGED <<sseNow, lastDeltaAt>>

\* time passes
SseTick ==
    /\ sseNow < MaxSseNow
    /\ sseNow' = sseNow + SseClockStep
    /\ sseOut' = <<>>
    /\ sseStep' = [NoStep EXCEPT !.op = "tick"]
    /\ UNCHANGED <<responseText, timerDue, modelShown, modelLabel, lastDeltaAt,
                   deltas, debounced>>
    /\ UNCHANGED nonSseVars

NextSse ==
    \/ SseEvent
    \/ SseTimerFire
    \/ SseSendInput
    \/ SseTick

(***************************************************************************)
(* bot.ts and rateLimiter.ts: the per-user maps, with two users            *)
(***************************************************************************)
Users == {"A", "B"}

\* a state shared by all users instead of one entry per user
getRateLimitState_shared(user) == "A"

\* rateLimitStates.get(userId): the entry the call returns
getRateLimitState(user) == user

\* userMessageStates.get(userId)
getUserMessageState(user) == user

\* outputQueues.get(userId)
getOutputQueueState(user) == user

NewMessageState ==
    [lastMessageId |-> NoMsg, needsNewMessage |-> TRUE, messageIds |-> <<>>,
     loaderMessageId |-> NoMsg, statusMessageId |-> NoMsg]

NewQueueState ==
    [pendingOutput |-> NoText, isProcessing |-> FALSE, debounceTimer |-> FALSE]

NewRateLimitState == [cooldown |-> FALSE]

\* the timers, the calls in flight and the events of one user so far
NoneInFlight ==
    [retryTimers |-> 0, tasks |-> EmptyBag, emitted |-> 0, statuses |-> 0,
     inputs |-> 0, fails |-> 0, delivered |-> <<>>, lastQueued |-> 0,
     lastMessageInput |-> 0]

IdleUsers ==
    /\ userMessageStates = [u \in Users |-> NewMessageState]
    /\ outputQueues = [u \in Users |-> NewQueueState]
    /\ rateLimitStates = [u \in Users |-> NewRateLimitState]
    /\ inFlight = [u \in Users |-> NoneInFlight]
    /\ actor = "none"

\* the state the handlers of the user work on
WorldOf(user) ==
    LET ms == userMessageStates[getUserMessageState(user)]
        qs == outputQueues[getOutputQueueState(user)]
        rs == rateLimitStates[getRateLimitState(user)]
        fl == inFlight[user]
    IN  [lastMessageId |-> ms.lastMessageId, needsNewMessage |-> ms.needsNewMessage,
         messageIds |-> ms.messageIds, loaderMessageId |-> ms.loaderMessageId,
         statusMessageId |-> ms.statusMessageId, pendingOutput |-> qs.pendingOutput,
         isProcessing |-> qs.isProcessing, debounceTimer |-> qs.debounceTimer,
         retryTimers |-> fl.retryTimers, cooldown |-> rs.cooldown, tasks |-> fl.tasks,
         emitted |-> fl.emitted, statuses |-> fl.statuses,
         inputs |-> fl.inputs, fails |-> fl.fails, delivered |-> fl.delivered,
         lastQueued |-> fl.lastQueued, soiAnswer |-> NoAnswer,
         lastMessageInput |-> fl.lastMessageInput]

CommitOf(user, w) ==
    /\ userMessageStates' =
         [userMessageStates EXCEPT ![getUserMessageState(user)] =
            [lastMessageId |-> w.lastMessageId, needsNewMessage |-> w.needsNewMessage,
             messageIds |-> w.messageIds, loaderMessageId |-> w.loaderMessageId,
             statusMessageId |-> w.statusMessageId]]
    /\ outputQueues' =
         [outputQueues EXCEPT ![getOutputQueueState(user)] =
            [pendingOutput |-> w.pendingOutput, isProcessing |-> w.isProcessing,
             debounceTimer |-> w.debounceTimer]]
    /\ rateLimitStates' =
         [rateLimitStates EXCEPT ![getRateLimitState(user)] =
            [cooldown |-> w.cooldown]]
    /\ inFlight' =
         [inFlight EXCEPT ![user] =
            [retryTimers |-> w.retryTimers, tasks |-> w.tasks, emitted |-> w.emitted,
             statuses |-> w.statuses, inputs |-> w.inputs, fails |-> w.fails,
             delivered |-> w.delivered, lastQueued |-> w.lastQueued,
             lastMessageInput |-> w.lastMessageInput]]
    /\ actor' = user
    /\ UNCHANGED nonUserVars

\* the adapter of the user emits `output`
EmitOutputOf(user) ==
    LET w == WorldOf(user)
    IN  /\ w.emitted < MaxUserOutputs
        /\ CommitOf(user, handleAgentOutput([w EXCEPT !.emitted = @ + 1],
                                            [id |-> w.emitted + 1, chunks |-> 1]))

\* the adapter of the user emits `status`
EmitStatusOf(user) ==
    LET w == WorldOf(user)
    IN  /\ w.statuses < MaxUserStatuses
        /\ CommitOf(user, handleAgentStatus([w EXCEPT !.statuses = @ + 1],
                                            [id |-> w.statuses + 1, chunks |-> 1]))

DebounceFireOf(user) ==
    LET w == WorldOf(user)
    IN  /\ w.debounceTimer
        /\ CommitOf(user, processOutputQueue([w EXCEPT !.debounceTimer = FALSE]))

RetryFireOf(user) ==
    LET w == WorldOf(user)
    IN  /\ w.retryTimers > 0
        /\ CommitOf(user, processOutputQueue([w EXCEPT !.retryTimers = @ - 1]))

WakeOf(user) ==
    LET w == WorldOf(user)
    IN  \E t \in BagToSet(w.tasks) :
          /\ t.rl \in {"wait0", "wait1"}
          /\ LET w1 == [w EXCEPT !.tasks = @ (-) SetToBag({t})]
             IN  CommitOf(user, spawn(w1, invoke(w1, t, IF t.rl = "wait0" THEN "op1"
                                                        ELSE "op2")))

RECURSIVE SumFails(_)
SumFails(us) ==
    IF us = {} THEN 0
    ELSE LET u == CHOOSE x \in us : TRUE
         IN  inFlight[u].fails + SumFails(us \ {u})

FailsOfAll == SumFails(Users)

RespondOf(user) ==
    LET w == WorldOf(user)
    IN  \E t \in BagToSet(w.tasks), res \in AllAnswers :
          /\ InFlight(t)
          /\ res \in chatAnswers(t)
          /\ (res # "ok" /\ ~checkIsForced(t)) => FailsOfAll < MaxUserFails
          /\ LET w1 == [w EXCEPT
                          !.tasks = @ (-) SetToBag({t}),
                          !.fails = IF res # "ok" /\ ~checkIsForced(t)
                                    THEN @ + 1 ELSE @]
             IN  CommitOf(user, withRateLimitRetry(w1, t, res))

CooldownExpireOf(user) ==
    LET w == WorldOf(user)
    IN  /\ w.cooldown
        /\ CommitOf(user, [w EXCEPT !.cooldown = FALSE])

EmitOutputAny == \E user \in Users : EmitOutputOf(user)
EmitStatusAny == \E user \in Users : EmitStatusOf(user)
DebounceFireAny == \E user \in Users : DebounceFireOf(user)
RetryFireAny == \E user \in Users : RetryFireOf(user)
WakeOfAny == \E user \in Users : WakeOf(user)
RespondOfAny == \E user \in Users : RespondOf(user)
CooldownExpireAny == \E user \in Users : CooldownExpireOf(user)

NextUsers ==
    \/ EmitOutputAny
    \/ EmitStatusAny
    \/ DebounceFireAny
    \/ RetryFireAny
    \/ WakeOfAny
    \/ RespondOfAny
    \/ CooldownExpireAny

(***************************************************************************)
(* adapters/claudeCliAdapter.ts: the automatic keystrokes of pollOutput    *)
(***************************************************************************)
\* the session of the user in this.sessions; gen 0: none. gen tells the
\* sessions of one user apart, which all carry the name claude-<userId>
NoKeySession ==
    [gen |-> 0, lastContent |-> 0, handledAutoEnter |-> FALSE,
     handledAutoAccept |-> FALSE]

\* what capture-pane shows: id tells contents apart, long: the new part is
\* longer than 50 characters, enter / accept: the content matches the
\* patterns of checkNeedsAutoEnter / checkNeedsAutoAccept
Screens ==
    [id : 1..MaxScreens, long : BOOLEAN, enter : BOOLEAN, accept : BOOLEAN]

checkNeedsAutoEnter(content) == content.enter

checkNeedsAutoAccept(content) == content.accept

NoKey == [key |-> "none", by |-> 0, to |-> 0]

IdleKeys ==
    /\ keySess = NoKeySession
    /\ tmuxGen = 0
    /\ keyTimers = {}
    /\ keySent = NoKey
    /\ keyStarts = 0

\* stopSession: the tmux session of that name is killed, the entry deleted
keyStop(s, tm) ==
    IF s.gen = 0 THEN [sess |-> s, tmux |-> tm]
    ELSE [sess |-> NoKeySession, tmux |-> 0]

\* startSession with the tool installed: stopSession, kill-session,
\* new-session (created: it succeeded), the entry and the interval timer
KeyStart ==
    /\ keyStarts < MaxKeyStarts
    /\ \E created \in BOOLEAN :
         LET stopped == keyStop(keySess, tmuxGen)
         IN  /\ keyStarts' = keyStarts + 1
             /\ IF created
                THEN /\ tmuxGen' = keyStarts + 1
                     /\ keySess' = [NoKeySession EXCEPT !.gen = keyStarts + 1]
                ELSE /\ tmuxGen' = 0
                     /\ keySess' = stopped.sess
    /\ keySent' = NoKey
    /\ UNCHANGED keyTimers
    /\ UNCHANGED nonKeyVars

KeyStop ==
    /\ keySess.gen # 0
    /\ keySess' = keyStop(keySess, tmuxGen).sess
    /\ tmuxGen' = keyStop(keySess, tmuxGen).tmux
    /\ keySent' = NoKey
    /\ UNCHANGED <<keyTimers, keyStarts>>
    /\ UNCHANGED nonKeyVars

\* the terminal session ends by itself
KeyTmuxExit ==
    /\ tmuxGen # 0
    /\ tmuxGen' = 0
    /\ keySent' = NoKey
    /\ UNCHANGED <<keySess, keyTimers, keyStarts>>
    /\ UNCHANGED nonKeyVars

\* the timers pollOutput sets for the content, by the session s
autoKeys(s, content, newPartLong) ==
    LET s1 == IF newPartLong
              THEN [s EXCEPT !.handledAutoEnter = FALSE, !.handledAutoAccept = FALSE]
              ELSE s
        doEnter == ~s1.handledAutoEnter /\ checkNeedsAutoEnter(content)
        s2 == IF doEnter THEN [s1 EXCEPT !.handledAutoEnter = TRUE] ELSE s1
        doAccept == ~s2.handledAutoAccept /\ checkNeedsAutoAccept(content)
        s3 == IF doAccept THEN [s2 EXCEPT !.handledAutoAccept = TRUE] ELSE s2
    IN  [sess |-> s3,
         timers |-> (IF doEnter THEN {[key |-> "Enter", by |-> s.gen]} ELSE {})
                    \cup (IF doAccept THEN {[key |-> "Down", by |-> s.gen]} ELSE {})]

\* pollOutput, run by the interval timer of the session
KeyPoll ==
    /\ keySess.gen # 0
    /\ IF tmuxGen = 0
       THEN \* capture-pane fails, checkIsActive is false: stopSession
            /\ keySess' = NoKeySession
            /\ UNCHANGED <<tmuxGen, keyTimers>>
       ELSE \E content \in Screens :
              IF content.id # keySess.lastContent
              THEN LET r == autoKeys([keySess EXCEPT !.lastContent = content.id],
                                     content, content.long)
                   IN  /\ keySess' = r.sess
                       /\ keyTimers' = keyTimers \cup r.timers
                       /\ UNCHANGED tmuxGen
              ELSE UNCHANGED <<keySess, tmuxGen, keyTimers>>
    /\ keySent' = NoKey
    /\ UNCHANGED keyStarts
    /\ UNCHANGED nonKeyVars

\* a setTimeout callback runs tmux('send-keys', '-t', session.sessionName, key):
\* the key goes to the terminal session of that name, if there is one
KeyTimerFire ==
    \E t \in keyTimers :
        /\ keySent' = IF tmuxGen # 0
                      THEN [key |-> t.key, by |-> t.by, to |-> tmuxGen]
                      ELSE NoKey
        /\ keyTimers' = (keyTimers \ {t})
                        \cup (IF t.key = "Down"
                              THEN {[key |-> "EnterAfterDown", by |-> t.by]}
                              ELSE {})
        /\ UNCHANGED <<keySess, tmuxGen, keyStarts>>
        /\ UNCHANGED nonKeyVars

NextKeys ==
    \/ KeyStart
    \/ KeyStop
    \/ KeyTmuxExit
    \/ KeyPoll
    \/ KeyTimerFire

(***************************************************************************)
(* adapters/openCodeAdapter.ts: setModel and the resolution of a query     *)
(***************************************************************************)
Slash == "/"
Dash == "-"

LowerOf(c) == IF c = "A" THEN "a" ELSE IF c = "B" THEN "b" ELSE c

\* String.prototype.toLowerCase
toLowerCase(s) == [k \in 1..Len(s) |-> LowerOf(s[k])]

\* replace(/\s+/g, '-')
RECURSIVE dashSpaces(_)
dashSpaces(s) ==
    IF s = <<>> THEN <<>>
    ELSE IF Head(s) \in WhiteSpace
    THEN <<Dash>> \o dashSpaces(TrimStart(s))
    ELSE <<Head(s)>> \o dashSpaces(Tail(s))

\* m.split('/').slice(1).join('/'): what follows the first slash
modelPart(m) ==
    LET k == IndexOf(m, {Slash})
    IN  IF k = 0 THEN <<>> ELSE SubSeq(m, k + 1, Len(m))

\* null, of findModelByQuery and of resolveModelId
NoModel == <<>>

\* models.find(pred): the first model of the list the test accepts
FirstWhere(models, Test(_)) ==
    IF \E k \in 1..Len(models) : Test(models[k])
    THEN models[CHOOSE k \in 1..Len(models) :
                  /\ Test(models[k])
                  /\ \A j \in 1..(k - 1) : ~Test(models[j])]
    ELSE NoModel

findModelByQuery(query, models) ==
    LET normalized == dashSpaces(Trim(toLowerCase(query)))
        IsExact(m) == toLowerCase(m) = normalized
        IsByModelName(m) ==
            LET part == toLowerCase(modelPart(m))
            IN  part = normalized \/ Includes(part, normalized)
        IsFuzzy(m) == Includes(toLowerCase(m), normalized)
        exact == FirstWhere(models, IsExact)
        byModelName == FirstWhere(models, IsByModelName)
        fuzzy == FirstWhere(models, IsFuzzy)
    IN  IF exact # NoModel THEN exact
        ELSE IF byModelName # NoModel THEN byModelName
        ELSE IF fuzzy # NoModel THEN fuzzy
        ELSE NoModel

NoOverride == [providerID |-> <<>>, modelID |-> <<>>]

\* found.slice(0, slash), found.slice(slash + 1)
splitAtSlash(m) ==
    LET k == IndexOf(m, {Slash})
    IN  [providerID |-> SubSeq(m, 1, k - 1), modelID |-> SubSeq(m, k + 1, Len(m))]

\* resolveModelId; NoOverride: null
resolveModelId(input, models) ==
    LET trimmed == Trim(input)
    IN  IF IndexOf(trimmed, {Slash}) > 1
        THEN splitAtSlash(trimmed)
        ELSE LET found == findModelByQuery(trimmed, models)
             IN  IF found # NoModel THEN splitAtSlash(found) ELSE NoOverride

\* no cached list
NoCache == <<<<"none">>>>

\* fetchAvailableModels: cached is the cache, fresh says it is younger than
\* modelsCacheTtlMs, cli is the list `opencode models` prints, or CliFailed
CliFailed == <<<<"failed">>>>

fetchAvailableModels(cached, fresh, cli) ==
    IF cached # NoCache /\ fresh THEN cached
    ELSE IF cli # CliFailed THEN cli
    ELSE IF cached # NoCache THEN cached
    ELSE <<>>

\* the cache after fetchAvailableModels
cacheAfterFetch(cached, fresh, cli) ==
    IF cached # NoCache /\ fresh THEN cached
    ELSE IF cli # CliFailed /\ Len(cli) > 0 THEN cli
    ELSE cached

\* the fields of the session setModel writes
NoModelSession ==
    [isActive |-> FALSE, modelOverride |-> NoOverride, isModelInfoShown |-> TRUE,
     currentModelLabel |-> <<>>]

NoReturn == <<"pending">>
ReturnsNull == <<"null">>

\* a setModel that does not look at isActive
setModel_anySession(session, modelId, models) ==
    LET resolved == resolveModelId(modelId, models)
    IN  IF resolved = NoOverride
        THEN [session |-> session, returned |-> <<"Model not found">>]
        ELSE [session |->
                [session EXCEPT
                   !.modelOverride = resolved,
                   !.isModelInfoShown = FALSE,
                   !.currentModelLabel =
                       resolved.providerID \o <<Slash>> \o resolved.modelID],
              returned |-> ReturnsNull]

\* setModel: the session afterwards and the value returned
setModel(session, modelId, models) ==
    IF ~session.isActive
    THEN [session |-> session, returned |-> <<"No active session">>]
    ELSE LET resolved == resolveModelId(modelId, models)
         IN  IF resolved = NoOverride
             THEN [session |-> session, returned |-> <<"Model not found">>]
             ELSE [session |->
                     [session EXCEPT
                        !.modelOverride = resolved,
                        !.isModelInfoShown = FALSE,
                        !.currentModelLabel =
                            resolved.providerID \o <<Slash>> \o resolved.modelID],
                   returned |-> ReturnsNull]

\* the ids `opencode models` lists: lines with a slash
ModelNames ==
    {<<"a">>, <<"b">>, <<"a", "b">>, <<"b", "a">>, <<"a", "a">>,
     <<"a", Dash, "b">>, <<"A">>}

ModelIds ==
    {<<"b", Slash>> \o n : n \in ModelNames} \cup {<<"a", Slash, "a">>}

ModelLists ==
    {<<>>} \cup {<<m>> : m \in ModelIds}
    \cup {<<p[1], p[2]>> : p \in {q \in ModelIds \X ModelIds : q[1] # q[2]}}

QueryChars == {"a", "b", "A", Space, Slash}

Queries == TextsOver(QueryChars, MaxQueryLen) \ {<<>>}

\* a session as it is before setModel: active or not, a model shown or none
ModelSessions ==
    {[NoModelSession EXCEPT !.isActive = a, !.isModelInfoShown = s] :
        a \in BOOLEAN, s \in BOOLEAN}

IdleModel ==
    /\ modelQuery = <<>>
    /\ modelList = <<>>
    /\ modelCache = NoCache
    /\ modelCacheFresh = FALSE
    /\ modelSession = NoModelSession
    /\ modelBefore = NoModelSession
    /\ modelFound = NoReturn
    /\ modelReturned = NoReturn

\* findModelByQuery(query, models) on the list the CLI printed
FindModel ==
    /\ modelFound = NoReturn
    /\ modelReturned = NoReturn
    /\ modelList # CliFailed
    /\ modelFound' = findModelByQuery(modelQuery, modelList)
    /\ UNCHANGED <<modelQuery, modelList, modelCache, modelCacheFresh,
                   modelSession, modelBefore, modelReturned>>
    /\ UNCHANGED nonModelVars

\* setModel(userId, modelId)
SetModel ==
    /\ modelReturned = NoReturn
    /\ modelFound = NoReturn
    /\ LET models == IF modelSession.isActive
                     THEN fetchAvailableModels(modelCache, modelCacheFresh, modelList)
                     ELSE <<>>
           r == setModel(modelSession, modelQuery, models)
       IN  /\ modelSession' = r.session
           /\ modelReturned' = r.returned
           /\ modelCache' = IF modelSession.isActive
                            THEN cacheAfterFetch(modelCache, modelCacheFresh, modelList)
                            ELSE modelCache
    /\ UNCHANGED <<modelQuery, modelList, modelCacheFresh, modelBefore, modelFound>>
    /\ UNCHANGED nonModelVars

NextModel ==
    \/ FindModel
    \/ SetModel

(***************************************************************************)
(* installManager.ts: ensureOpenCodeServer                                 *)
(***************************************************************************)
healthProbes == 15

NoProcess == 0
NoExitCode == "null"

\* a ChildProcess returned by exec: its exitCode, whether its 'exit'
\* listener has run, whether kill() was called on it
NewProcess == [exitCode |-> NoExitCode, listenerRan |-> FALSE, killed |-> FALSE]

\* openCodeProcess.kill() of a process that exists and is not killed
killProcess(procs, p) ==
    IF p # NoProcess /\ ~procs[p].killed
    THEN [procs EXCEPT ![p].killed = TRUE]
    ELSE procs

IdleServer ==
    /\ srvPc = "idle"
    /\ srvI = 0
    /\ srvProbes = 0
    /\ srvHealthy = FALSE
    /\ srvProcs = <<>>
    /\ openCodeProcess = NoProcess
    /\ srvCalls = 0

\* what a health probe answers: response.ok, or a failure of any kind
checkIsOpenCodeServerRunning == srvHealthy

\* the check after a failed probe: openCodeProcess?.exitCode is a number
seesExit(procs, p) == p # NoProcess /\ procs[p].exitCode # NoExitCode

\* the loop after a probe failed in round i: throw, or go on
afterFailedProbe_oneMore(procs, p, i) ==
    IF seesExit(procs, p) THEN "thrownExit"
    ELSE IF i < healthProbes THEN "sleep"
    ELSE "thrownTimeout"

afterFailedProbe(procs, p, i) ==
    IF seesExit(procs, p) THEN "thrownExit"
    ELSE IF i + 1 < healthProbes THEN "sleep"
    ELSE "thrownTimeout"

\* ensureOpenCodeServer is called: the first health check is on its way
EnsureCall ==
    /\ srvPc \in {"idle", "returned", "thrownExit", "thrownTimeout"}
    /\ srvCalls < MaxEnsureCalls
    /\ srvCalls' = srvCalls + 1
    /\ srvPc' = "check"
    /\ srvI' = 0
    /\ srvProbes' = 0
    /\ UNCHANGED <<srvHealthy, srvProcs, openCodeProcess>>
    /\ UNCHANGED nonServerVars

\* the first health check is answered: return, or kill a process that does
\* not respond, start the server and wait
EnsureChecked ==
    /\ srvPc = "check"
    /\ IF checkIsOpenCodeServerRunning
       THEN /\ srvPc' = "returned"
            /\ UNCHANGED <<srvProcs, openCodeProcess>>
       ELSE /\ srvPc' = "sleep"
            /\ srvProcs' = Append(killProcess(srvProcs, openCodeProcess),
                                  NewProcess)
            /\ openCodeProcess' = Len(srvProcs) + 1
    /\ UNCHANGED <<srvI, srvProbes, srvHealthy, srvCalls>>
    /\ UNCHANGED nonServerVars

\* sleep(1000) is over: the probe of round i is sent
EnsureProbe ==
    /\ srvPc = "sleep"
    /\ srvPc' = "probe"
    /\ srvProbes' = srvProbes + 1
    /\ UNCHANGED <<srvI, srvHealthy, srvProcs, openCodeProcess, srvCalls>>
    /\ UNCHANGED nonServerVars

\* the probe of round i is answered, or times out after 2000 ms
EnsureProbed ==
    /\ srvPc = "probe"
    /\ IF checkIsOpenCodeServerRunning
       THEN /\ srvPc' = "returned"
            /\ UNCHANGED srvI
       ELSE /\ srvPc' = afterFailedProbe(srvProcs, openCodeProcess, srvI)
            /\ srvI' = srvI + 1
    /\ UNCHANGED <<srvProbes, srvHealthy, srvProcs, openCodeProcess, srvCalls>>
    /\ UNCHANGED nonServerVars

\* a started server begins to answer its health endpoint
ServerReady ==
    /\ ~srvHealthy
    /\ \E k \in 1..Len(srvProcs) : srvProcs[k].exitCode = NoExitCode
    /\ srvHealthy' = TRUE
    /\ UNCHANGED <<srvPc, srvI, srvProbes, srvProcs, openCodeProcess, srvCalls>>
    /\ UNCHANGED nonServerVars

\* a server process ends (killed or by itself): exitCode is set
ServerExit ==
    \E k \in 1..Len(srvProcs) :
        /\ srvProcs[k].exitCode = NoExitCode
        /\ srvProcs' = [srvProcs EXCEPT ![k].exitCode = "1"]
        /\ srvHealthy' = FALSE
        /\ UNCHANGED <<srvPc, srvI, srvProbes, openCodeProcess, srvCalls>>
        /\ UNCHANGED nonServerVars

\* openCodeProcess.on('exit', ...) of an ended process runs
ExitListener ==
    \E k \in 1..Len(srvProcs) :
        /\ srvProcs[k].exitCode # NoExitCode
        /\ ~srvProcs[k].listenerRan
        /\ srvProcs' = [srvProcs EXCEPT ![k].listenerRan = TRUE]
        /\ openCodeProcess' = NoProcess
        /\ UNCHANGED <<srvPc, srvI, srvProbes, srvHealthy, srvCalls>>
        /\ UNCHANGED nonServerVars

NextServer ==
    \/ EnsureCall
    \/ EnsureChecked
    \/ EnsureProbe
    \/ EnsureProbed
    \/ ServerReady
    \/ ServerExit
    \/ ExitListener

(***************************************************************************)
(* bot.ts: splitMessage                                                    *)
(***************************************************************************)
\* remaining.lastIndexOf('\n', fromIndex): the largest index from 0, at most
\* fromIndex, that holds a newline; -1 when there is none
lastIndexOfNewline(s, fromIndex) ==
    LET at == {i \in 0..fromIndex : i < Len(s) /\ s[i + 1] = Newline}
    IN  IF at = {} THEN -1 ELSE CHOOSE i \in at : \A j \in at : j <= i

\* a cut that ignores the newlines
cutAt_hard(remaining, maxLen) == maxLen

\* let cutAt = maxLen; ... if (lastNewline > maxLen * 0.5) cutAt = lastNewline
cutAt(remaining, maxLen) ==
    LET lastNewline == lastIndexOfNewline(remaining, maxLen)
    IN  IF 2 * lastNewline > maxLen THEN lastNewline ELSE maxLen

\* the while loop of splitMessage
RECURSIVE splitLoop(_, _)
splitLoop(remaining, maxLen) ==
    IF Len(remaining) = 0 THEN <<>>
    ELSE IF Len(remaining) <= maxLen THEN <<remaining>>
    ELSE LET cut == cutAt(remaining, maxLen)
             rest == SubSeq(remaining, cut + 1, Len(remaining))
         IN  <<SubSeq(remaining, 1, cut)>>
             \o splitLoop(IF rest # <<>> /\ Head(rest) = Newline THEN Tail(rest)
                          ELSE rest,
                          maxLen)

splitMessage(text, maxLen) ==
    IF Len(text) <= maxLen THEN <<text>> ELSE splitLoop(text, maxLen)

\* the texts handleAgentOutput and handleAgentStatus pass on: not blank
SplitTexts ==
    {s \in TextsOver({"a", Newline}, MaxSplitText) : \E k \in 1..Len(s) : s[k] = "a"}

IdleClass ==
    /\ classText = <<>>
    /\ classResult = "none"

IdleSplit ==
    /\ splitText = <<>>
    /\ splitMaxLen = 1
    /\ splitParts = <<>>

\* no text function of the later sections has been applied
IdleLater ==
    /\ IdleUsers
    /\ IdleKeys
    /\ IdleModel
    /\ IdleServer

IdleMore ==
    /\ IdleClass
    /\ IdleSplit
    /\ IdleSse
    /\ IdleLater

\* nothing has happened in the bot and in the adapters
IdleButIds ==
    /\ now = 0
    /\ blockedUntil = 0
    /\ callers = [k \in Callers |-> IdleCaller]
    /\ rl429 = 0
    /\ lastMessageId = NoMsg
    /\ needsNewMessage = TRUE
    /\ loaderMessageId = NoMsg
    /\ statusMessageId = NoMsg
    /\ pendingOutput = NoText
    /\ isProcessing = FALSE
    /\ debounceTimer = FALSE
    /\ retryTimers = 0
    /\ cooldown = FALSE
    /\ tasks = EmptyBag
    /\ emitted = 0
    /\ statuses = 0
    /\ inputs = 0
    /\ fails = 0
    /\ delivered = <<>>
    /\ lastQueued = 0
    /\ soiAnswer = NoAnswer
    /\ lastMessageInput = 0
    /\ backend = "claude"
    /\ installed = TRUE
    /\ serverUp = TRUE
    /\ sessions = 0
    /\ sess = [c \in StartCalls |-> NoSession]
    /\ calls = [c \in StartCalls |-> IdleCall]
    /\ loops = EmptyBag
    /\ tmuxNames = {}
    /\ adEmitted = <<>>
    /\ stoppedOf = {}
    /\ announced = {}
    /\ polled = NoPoll

\* nothing has happened in the bot and in the adapters, and no message ids
\* were stored
IdleProgram ==
    /\ IdleButIds
    /\ messageIds = <<>>

Init ==
    /\ IdleProgram
    /\ IdleClean
    /\ IdleDiff
    /\ IdleStatus
    /\ IdleMore

Next ==
    \/ EmitOutput
    \/ EmitStatus
    \/ UserInput
    \/ DebounceFire
    \/ RetryFire
    \/ WakeAny
    \/ RespondAny
    \/ CooldownExpire

Spec == Init /\ [][Next]_vars

\* timers fire, sleeps end and the chat answers every call
FairSpec ==
    /\ Spec
    /\ WF_vars(DebounceFire)
    /\ WF_vars(RetryFire)
    /\ WF_vars(WakeAny)
    /\ WF_vars(RespondAny)

\* the delivery of outputs of several chunks
NextChunks ==
    \/ EmitLongOutput
    \/ EmitStatusBeside
    \/ UserInput
    \/ DebounceFire
    \/ RetryFire
    \/ WakeAny
    \/ RespondAny
    \/ CooldownExpire

SpecChunks == Init /\ [][NextChunks]_vars

\* the delivery queue with a chat that fails both attempts of sendChunk
NextFail ==
    \/ EmitOutput
    \/ UserInput
    \/ DebounceFire
    \/ RetryFire
    \/ WakeAny
    \/ RespondFailingAny
    \/ CooldownExpire

SpecFail == Init /\ [][NextFail]_vars

\* the delivery queue with a user who sends a second message
NextLoader ==
    \/ EmitOutput
    \/ EmitStatusBeside
    \/ UserInputAgain
    \/ DebounceFire
    \/ RetryFire
    \/ WakeAny
    \/ RespondAny
    \/ CooldownExpire

SpecLoader == Init /\ [][NextLoader]_vars

\* loadMessageIds: the list saveMessageIds stored in an earlier run, n ids long
loadMessageIds(n) == [k \in 1..n |-> [by |-> "loaded", n |-> k, i |-> 0]]

\* the bot starts with a stored list that is full or nearly full
InitTrack ==
    /\ IdleButIds
    /\ \E n \in (maxTrackedIds - MaxHeadroom)..maxTrackedIds :
          messageIds = loadMessageIds(n)
    /\ IdleClean
    /\ IdleDiff
    /\ IdleStatus
    /\ IdleMore

SpecTrack == InitTrack /\ [][Next]_vars

\* any chunk pollOutput can pass to checkIsStatusOutput
InitClassify ==
    /\ IdleProgram
    /\ IdleClean
    /\ IdleDiff
    /\ IdleStatus
    /\ classText \in ClassChunks(MaxClassLines)
    /\ classResult = "none"
    /\ IdleSplit
    /\ IdleSse
    /\ IdleLater

\* pollOutput: if (checkIsStatusOutput(cleanedOutput)) ... else ...
Classify ==
    /\ classResult = "none"
    /\ classResult' = IF checkIsStatusOutput(classText) THEN "status" ELSE "output"
    /\ UNCHANGED classText
    /\ UNCHANGED nonClassVars

SpecClassify == InitClassify /\ [][Classify]_vars

\* any text that is not blank, and any limit
InitSplit ==
    /\ IdleProgram
    /\ IdleClean
    /\ IdleDiff
    /\ IdleStatus
    /\ IdleClass
    /\ splitText \in SplitTexts
    /\ splitMaxLen \in 1..MaxSplitLen
    /\ splitParts = <<>>
    /\ IdleSse
    /\ IdleLater

\* const chunks = splitMessage(output)
SplitMessage ==
    /\ splitParts = <<>>
    /\ splitParts' = splitMessage(splitText, splitMaxLen)
    /\ UNCHANGED <<splitText, splitMaxLen>>
    /\ UNCHANGED nonSplitVars

SpecSplit == InitSplit /\ [][SplitMessage]_vars

SpecSse == Init /\ [][NextSse]_vars

SpecUsers == Init /\ [][NextUsers]_vars

SpecKeys == Init /\ [][NextKeys]_vars

InitModel ==
    /\ IdleProgram
    /\ IdleClean
    /\ IdleDiff
    /\ IdleStatus
    /\ IdleClass
    /\ IdleSplit
    /\ IdleSse
    /\ IdleUsers
    /\ IdleKeys
    /\ IdleServer
    /\ modelQuery \in Queries
    /\ modelList \in ModelLists \cup {CliFailed}
    /\ modelCache \in {NoCache, <<<<"b", Slash, "a", "b">>>>}
    /\ modelCacheFresh \in BOOLEAN
    /\ (modelCache = NoCache) => ~modelCacheFresh
    /\ modelSession \in ModelSessions
    /\ modelBefore = modelSession
    /\ modelFound = NoReturn
    /\ modelReturned = NoReturn

SpecModel == InitModel /\ [][NextModel]_vars

SpecServer == Init /\ [][NextServer]_vars

\* every started step of ensureOpenCodeServer ends: sleep(1000) and the
\* health fetch under AbortSignal.timeout(2000) always come back
FairSpecServer ==
    /\ SpecServer
    /\ WF_vars(EnsureChecked)
    /\ WF_vars(EnsureProbe)
    /\ WF_vars(EnsureProbed)

NextRL ==
    \/ \E k \in Callers : RlCall(k)
    \/ \E k \in Callers : RlWakeFirst(k)
    \/ \E k \in Callers : RlFirstAnswer(k)
    \/ \E k \in Callers : RlWakeRetry(k)
    \/ \E k \in Callers : RlRetryAnswer(k)
    \/ \E k \in Callers : RlDone(k)
    \/ Tick

SpecRL == Init /\ [][NextRL]_vars

\* the adapters start with no session; the tool and the server may be missing
InitAdapters ==
    /\ now = 0
    /\ blockedUntil = 0
    /\ callers = [k \in Callers |-> IdleCaller]
    /\ rl429 = 0
    /\ lastMessageId = NoMsg
    /\ needsNewMessage = TRUE
    /\ messageIds = <<>>
    /\ loaderMessageId = NoMsg
    /\ statusMessageId = NoMsg
    /\ pendingOutput = NoText
    /\ isProcessing = FALSE
    /\ debounceTimer = FALSE
    /\ retryTimers = 0
    /\ cooldown = FALSE
    /\ tasks = EmptyBag
    /\ emitted = 0
    /\ statuses = 0
    /\ inputs = 0
    /\ fails = 0
    /\ delivered = <<>>
    /\ lastQueued = 0
    /\ soiAnswer = NoAnswer
    /\ lastMessageInput = 0
    /\ backend \in Backends
    /\ installed \in BOOLEAN
    /\ serverUp \in BOOLEAN
    /\ sessions = 0
    /\ sess = [c \in StartCalls |-> NoSession]
    /\ calls = [c \in StartCalls |-> IdleCall]
    /\ loops = EmptyBag
    /\ tmuxNames = {}
    /\ adEmitted = <<>>
    /\ stoppedOf = {}
    /\ announced = {}
    /\ polled = NoPoll
    /\ IdleClean
    /\ IdleDiff
    /\ IdleStatus
    /\ IdleMore

NextAdapters ==
    \/ StartSession
    \/ StopSession
    \/ InstallDone
    \/ HealthDone
    \/ ServerDone
    \/ CreateDone
    \/ ModelDone
    \/ PollTick
    \/ TmuxExit
    \/ OtherUserTmux
    \/ SseConnected
    \/ SseRead
    \/ SseReconnect
    \/ OutputTimerFire

SpecAdapters == InitAdapters /\ [][NextAdapters]_vars

\* any capture of at most MaxCleanLen characters
InitClean ==
    /\ IdleProgram
    /\ rawText \in TextsOver(CleanChars, MaxCleanLen)
    /\ cleanedOnce = <<>>
    /\ cleanedTwice = <<>>
    /\ passes = 0
    /\ IdleDiff
    /\ IdleStatus
    /\ IdleMore

SpecClean == InitClean /\ [][NextClean]_vars

\* any two snapshots; the old one is empty before the first poll
InitDiff ==
    /\ IdleProgram
    /\ IdleClean
    /\ oldContent \in Snapshots
    /\ newContent \in Snapshots
    /\ newPart = <<>>
    /\ diffDone = FALSE
    /\ IdleStatus
    /\ IdleMore

SpecDiff == InitDiff /\ [][NextDiff]_vars

SpecStatus == Init /\ [][NextStatus]_vars

(***************************************************************************)
(* Claims                                                                  *)
(***************************************************************************)
SoiTasks(b) == {t \in BagToSet(b) : t.kind = "soi"}

\* the transport calls of the delivery path that are in flight
DeliveryCallsInFlight ==
    LET S == {t \in BagToSet(tasks) : InFlight(t) /\ t.kind # "reply"}
    IN  BagCardinality([t \in S |-> tasks[t]])

SoiRuns == BagCardinality([t \in SoiTasks(tasks) |-> tasks[t]])

\* C1: at most one send, edit or delete call of the user's delivery path is in
\* flight in every reachable state.
C1_OneCallInFlight == DeliveryCallsInFlight <= 1

\* C2: a debounce timer that fires while processOutputQueue is sending starts
\* no second sendOutputImmediate and leaves the text in the slot; a text leaves
\* the slot only by being handed to sendOutputImmediate or by a later
\* queueOutput replacing it; the slot is emptied again and again, so no text
\* stays in it forever, and isProcessing always returns to false.
C2_DeferredThenDelivered ==
    /\ [](SoiRuns <= 1)
    /\ [][(debounceTimer /\ ~debounceTimer' /\ isProcessing)
             => /\ pendingOutput' = pendingOutput
                /\ delivered' = delivered
                /\ SoiTasks(tasks') = SoiTasks(tasks)]_vars
    /\ [][(pendingOutput # NoText /\ pendingOutput' # pendingOutput)
             => \/ /\ pendingOutput' = NoText
                   /\ delivered' = Append(delivered, pendingOutput.id)
                \/ /\ pendingOutput' # NoText
                   /\ lastQueued' = pendingOutput'.id]_vars
    /\ []<>(pendingOutput = NoText)
    /\ []<>(~isProcessing)

\* the timer fired while a send was in progress: the text is still in the slot,
\* the send is over and the rerun is scheduled
C2_Witness ==
    /\ pendingOutput # NoText
    /\ ~debounceTimer
    /\ ~isProcessing
    /\ retryTimers > 0

\* C3: when the debounce timer fires with no delivery in progress, exactly one
\* sendOutputImmediate run starts and it carries the text of the last
\* queueOutput call; every run carries the text queued last when it starts, and
\* no text is handed to sendOutputImmediate twice.
C3_CoalescedDelivery ==
    /\ [](\A a, b \in 1..Len(delivered) : a < b => delivered[a] # delivered[b])
    /\ [][(debounceTimer /\ ~debounceTimer' /\ ~isProcessing
              /\ pendingOutput # NoText)
             => /\ delivered' = Append(delivered, lastQueued)
                /\ pendingOutput' = NoText
                /\ SoiRuns' = 1]_vars
    /\ [][delivered' # delivered => delivered' = Append(delivered, lastQueued)]_vars

\* three output events were queued and one run delivered the third alone
C3_Witness ==
    /\ emitted = 3
    /\ lastQueued = 3
    /\ delivered = <<3>>
    /\ pendingOutput = NoText
    /\ ~isProcessing

\* C4: output texts reach the pending slot in emission order (texts are
\* numbered as the adapter emits them), also when a status message is visible.
C4_EmissionOrder == [][lastQueued' >= lastQueued]_vars

\* C5: whenever sendOutputImmediate decides to edit, the message it edits was
\* sent after the user's latest input.
C5_FreshMessageAfterInput ==
    [][\A t \in SoiTasks(tasks') :
         (t.step = "edit" /\ ~\E u \in SoiTasks(tasks) : u.step = "edit")
           => lastMessageInput = inputs]_vars

\* C6: the first chunk goes out as a new message exactly when needsNewMessage
\* is true or lastMessageId is null at the decision, and else as an edit of
\* lastMessageId; a successful send sets needsNewMessage to false and
\* lastMessageId to the new id; a successful edit leaves lastMessageId alone.
C6_NewVsEdit ==
    [][/\ \A t \in SoiTasks(tasks') :
            /\ (t.step = "new" /\ ~\E u \in SoiTasks(tasks) : u.step = "new")
                 => (needsNewMessage \/ lastMessageId = NoMsg)
            /\ (t.step = "edit" /\ ~\E u \in SoiTasks(tasks) : u.step = "edit")
                 => /\ ~(needsNewMessage \/ lastMessageId = NoMsg)
                    /\ t.target = lastMessageId
       /\ (soiAnswer'.step \in {"new", "fallback", "rest"} /\ soiAnswer'.res = "ok")
            => /\ ~needsNewMessage'
               /\ lastMessageId' # NoMsg
               /\ lastMessageId' # lastMessageId
               /\ lastMessageId'.by = "output"
       /\ (soiAnswer'.step = "edit" /\ soiAnswer'.res = "ok")
            => lastMessageId' = lastMessageId]_vars

\* an edit of lastMessageId is under way, decided with the flag down
C6_Witness ==
    \E t \in SoiTasks(tasks) :
        /\ t.step = "edit"
        /\ InFlight(t)
        /\ t.target = lastMessageId
        /\ ~needsNewMessage

\* C7: an output edit answered "message is not modified" issues no send for
\* that chunk and leaves lastMessageId, needsNewMessage and messageIds alone.
C7_NotModifiedIsSilent ==
    [][(soiAnswer'.step = "edit" /\ soiAnswer'.res = "notModified")
         => /\ lastMessageId' = lastMessageId
            /\ needsNewMessage' = needsNewMessage
            /\ messageIds' = messageIds
            /\ \A t \in SoiTasks(tasks') : t.i # 0]_vars

C7_Witness ==
    /\ soiAnswer = [step |-> "edit", res |-> "notModified"]
    /\ lastMessageId # NoMsg

Finished(c) == c.pc \in {"returned", "thrown", "thrown429"}

\* C9: one call of withRateLimitRetry invokes the operation once if the first
\* attempt succeeds or fails without 429, twice if it fails with 429, never
\* more; the retry is issued only when retry_after times a factor in
\* [1.0, 1.3] has passed since the 429; a second 429 leaves blockedUntil in the
\* future and ends the call.
C9_AtMostOneRetry ==
    /\ [](\A k \in Callers :
            LET c == callers[k]
            IN  /\ c.calls <= 2
                /\ Finished(c) => /\ c.first \in {"ok", "err"} => c.calls = 1
                                  /\ c.first = "429" => c.calls = 2
                /\ c.pc \in {"sleep", "op2"}
                     => /\ c.waitMs >= c.retryAfter * 1000
                        /\ c.waitMs <= c.retryAfter * 1300
                /\ c.pc = "op2" => now >= c.wakeAt)
    /\ [][\A k \in Callers :
            /\ (callers[k].pc = "op1" /\ callers'[k].pc = "sleep")
                 => /\ callers'[k].wakeAt = now + callers'[k].waitMs
                    /\ blockedUntil' = callers'[k].wakeAt
            /\ (callers[k].pc = "op2" /\ callers'[k].pc = "thrown429")
                 => /\ blockedUntil' > now'
                    /\ callers'[k].calls = 2]_vars

C9_Witness ==
    \E k \in Callers : callers[k].pc = "thrown429" /\ callers[k].calls = 2

\* C10: no attempt is issued for the user while now < blockedUntil (a retry
\* that has slept out the cooldown it set itself starts at or after it).
C10_NoCallDuringCooldown ==
    [][\A k \in Callers :
         (callers'[k].pc \in {"op1", "op2"} /\ callers'[k].pc # callers[k].pc)
           => ~checkIsRateLimited]_vars

\* C11: a first attempt that fails without 429 is rethrown at once, with no
\* sleep and no retry, and blockedUntil is left alone; a retry that fails
\* without 429 leaves blockedUntil alone too.
C11_Non429LeavesCooldown ==
    [][\A k \in Callers :
         /\ (callers[k].pc = "op1" /\ callers'[k].first = "err")
              => /\ callers'[k].pc = "thrown"
                 /\ callers'[k].calls = 1
                 /\ blockedUntil' = blockedUntil
         /\ (callers[k].pc = "op2" /\ callers'[k].pc = "thrown")
              => /\ blockedUntil' = blockedUntil
                 /\ callers'[k].calls = 2]_vars

\* one call was thrown out by a plain failure of its first attempt, another by
\* a plain failure of its retry, with the cooldown of its 429 still set
C11_Witness ==
    /\ \E k \in Callers : callers[k].pc = "thrown" /\ callers[k].first = "err"
    /\ \E k \in Callers : callers[k].pc = "thrown" /\ callers[k].first = "429"
    /\ blockedUntil > 0

\* C20: at the moment sendOutputImmediate issues a send or an edit of output
\* text, statusMessageId is null: no status message sent earlier is left
\* undeleted.
C20_StatusGoneBeforeOutput ==
    [][\A t \in SoiTasks(tasks') :
         (/\ InFlight(t)
          /\ t.step \in {"new", "edit", "fallback", "rest"}
          /\ ~BagIn(t, tasks))
           => statusMessageId' = NoMsg]_vars

\* the message id the chat gives chunk i (from 0) of output n
ChunkId(n, i) == [by |-> "output", n |-> n, i |-> i]

\* C22: an output of k >= 2 chunks is sent chunk by chunk in order, starting
\* with chunk 1; chunks 2..k are never edits but sends of new messages; when
\* every call succeeded, sendOutputImmediate returns after chunk k with
\* lastMessageId the id of chunk k, and the ids of chunks 2..k (and of chunk 1
\* when it was sent as a new message) are in messageIds.
C22_ChunksInOrder ==
    [][/\ \A t \in SoiTasks(tasks') :
             /\ (t.i >= 1) => (t.step = "rest" /\ callKind(t) = "send")
             /\ \A u \in SoiTasks(tasks) : t.i \in {u.i, u.i + 1}
             /\ (SoiTasks(tasks) = {}) => (t.i = 0)
       /\ \A u \in SoiTasks(tasks) :
             (/\ u.text.chunks >= 2
              /\ isProcessing /\ ~isProcessing'
              /\ fails' = 0)
               => /\ u.i = u.text.chunks - 1
                  /\ lastMessageId' = ChunkId(u.text.id, u.i)
                  /\ \A i \in 1..u.i :
                        \E k \in 1..Len(messageIds') :
                            messageIds'[k] = ChunkId(u.text.id, i)
       /\ \A u \in SoiTasks(tasks) :
             (/\ u.step \in {"new", "fallback"}
              /\ soiAnswer' = [step |-> u.step, res |-> "ok"]
              /\ SoiTasks(tasks') # {u})
               => \E k \in 1..Len(messageIds') :
                      messageIds'[k] = ChunkId(u.text.id, 0)]_vars

\* an output of three chunks went out with no failure: the third chunk's
\* message is the current one
C22_Witness ==
    /\ ~isProcessing
    /\ fails = 0
    /\ lastMessageId.by = "output"
    /\ lastMessageId.i = 2
    /\ soiAnswer = [step |-> "rest", res |-> "ok"]

\* the last n elements of s (all of s when it has fewer)
KeepLast(s, n) == IF Len(s) > n THEN SubSeq(s, Len(s) - n + 1, Len(s)) ELSE s

\* C25: the tracked list never has more than 500 entries; a step changes it
\* only by appending the id it tracks and evicting from the front what exceeds
\* 500, so the list is always the most recently tracked ids in tracking order;
\* an id a successful output or status send returned (it becomes lastMessageId
\* or statusMessageId) is the id the step tracked.
C25_TrackedIdsCapped ==
    [][/\ Len(messageIds') <= maxTrackedIds
       /\ \E j \in 0..1 :
             messageIds' = KeepLast(messageIds \o KeepLast(messageIds', j),
                                    maxTrackedIds)
       /\ (lastMessageId' # lastMessageId /\ lastMessageId' # NoMsg)
             => messageIds'[Len(messageIds')] = lastMessageId'
       /\ (statusMessageId' # statusMessageId /\ statusMessageId' # NoMsg)
             => messageIds'[Len(messageIds')] = statusMessageId']_vars

\* the list is full, the two oldest stored ids were evicted and the newest
\* entry is the id of an output message
C25_Witness ==
    /\ Len(messageIds) = maxTrackedIds
    /\ messageIds[1] = [by |-> "loaded", n |-> 3, i |-> 0]
    /\ messageIds[maxTrackedIds].by = "output"

\* the lines of a text that hold a character that is not white space, each
\* without the white space at its ends
NonEmptyLines(text) ==
    LET lines == SplitLines(text)
        full == {n \in 1..Len(lines) : \E k \in 1..Len(lines[n]) :
                                           lines[n][k] \notin WhiteSpace}
    IN  {Trim(lines[n]) : n \in full}

\* how many lines of a text hold a character that is not white space
NonEmptyCount(text) ==
    LET lines == SplitLines(text)
    IN  Cardinality({n \in 1..Len(lines) : \E k \in 1..Len(lines[n]) :
                                              lines[n][k] \notin WhiteSpace})

\* a line of transient shape: a tree-drawing prefix, an ellipsis, a time/token
\* progress signature, or fewer than 40 characters without two adjacent words
\* of three letters or more
TransientShape(line) ==
    \/ line[1] \in TreeChars
    \/ Ellipsis \in {line[k] : k \in 1..Len(line)}
    \/ progressStats(line)
    \/ (Len(line) < 40 /\ ~sentenceLike(line))

\* C26: a chunk longer than 200 characters or of more than 3 non-empty lines
\* is output; any other chunk is status exactly when every non-empty line has
\* a transient shape, so one line failing all shapes makes the chunk output.
C26_StatusClassification ==
    (classResult # "none") =>
        classResult =
            IF Len(classText) > 200 \/ NonEmptyCount(classText) > 3 THEN "output"
            ELSE IF \A l \in NonEmptyLines(classText) : TransientShape(l) THEN "status"
            ELSE "output"

\* a chunk of three lines that all have a transient shape is output because it
\* is longer than 200 characters
C26_Witness ==
    /\ classResult = "output"
    /\ Len(classText) > 200
    /\ NonEmptyCount(classText) = 3
    /\ \A l \in NonEmptyLines(classText) : TransientShape(l)

\* where the text r, longer than the limit, is to be cut: at its last newline
\* among the positions 0..maxLen when that newline is beyond half the limit,
\* else at maxLen
CutPoint(r, maxLen) ==
    LET nls == {i \in 0..maxLen : r[i + 1] = Newline}
        last == CHOOSE i \in nls : \A j \in nls : j <= i
    IN  IF nls # {} /\ 2 * last > maxLen THEN last ELSE maxLen

\* parts cuts the text r as stated: a text within the limit is one chunk; a
\* longer one starts with the chunk up to its cut point and goes on with the
\* chunks of the rest, with or without the newline the rest starts with
RECURSIVE CutsAsStated(_, _, _)
CutsAsStated(parts, r, maxLen) ==
    IF r = <<>> THEN parts = <<>>
    ELSE IF Len(r) <= maxLen THEN parts = <<r>>
    ELSE /\ parts # <<>>
         /\ Head(parts) = SubSeq(r, 1, CutPoint(r, maxLen))
         /\ LET rest == SubSeq(r, CutPoint(r, maxLen) + 1, Len(r))
            IN  \/ CutsAsStated(Tail(parts), rest, maxLen)
                \/ /\ Head(rest) = Newline
                   /\ CutsAsStated(Tail(parts), Tail(rest), maxLen)

PollTimers == {c \in StartCalls : sess[c].pollTimer}

\* the pollSse activations that go on: their session's flag is still set, so
\* the loop condition (or the reconnect timer) lets them continue
LiveLoops ==
    LET live == {l \in BagToSet(loops) : sess[l.sess].isActive}
    IN  [l \in live |-> CopiesIn(l, loops)]

\* the events of the step just taken that carry type ty for session c
EmittedFor(evs, ty, c) == {i \in 1..Len(evs) : evs[i].type = ty /\ evs[i].sess = c}

\* C12: at any time at most one poll timer and at most one event-stream read
\* loop is running for the user, and it belongs to the session registered in
\* the adapter's map.
C12_OneLiveSession ==
    /\ Cardinality(PollTimers) <= 1
    /\ PollTimers \subseteq {sessions}
    /\ BagCardinality(LiveLoops) <= 1
    /\ \A l \in BagToSet(LiveLoops) : l.sess = sessions

\* C13: after `stopped` was emitted for a session, no `output`, `status` or
\* `started` event is emitted on behalf of that session.
C13_NothingAfterStopped ==
    [][\A i \in 1..Len(adEmitted') :
          adEmitted'[i].type \in {"output", "status", "started"}
            => /\ adEmitted'[i].sess \notin stoppedOf
               /\ \A j \in 1..(i - 1) :
                     ~(/\ adEmitted'[j].type = "stopped"
                       /\ adEmitted'[j].sess = adEmitted'[i].sess)]_vars

\* C14: when a step of bringing the backend up fails (install, terminal session
\* creation, remote session creation), the start call rejects, its session is
\* not registered and no `started` event is emitted for it.
C14_FailedStartRejects ==
    [][\A c \in StartCalls :
          (calls[c].failure = "none" /\ calls'[c].failure # "none")
            => /\ calls'[c].pc = "rejected"
               /\ sessions' # c
               /\ EmittedFor(adEmitted', "started", c) = {}]_vars

\* C15: a poll that captures an empty pane while the user's terminal session no
\* longer exists removes the session, clears its poll timer and emits `closed`
\* once; a poll that captures an empty pane while the terminal session exists
\* emits nothing and changes nothing; a poll with no session emits nothing.
C15_EmptyCaptureClosesDeadSession ==
    [][/\ (polled'.raw = "" /\ polled'.sess # 0 /\ ~polled'.wasListed)
            => /\ Cardinality(EmittedFor(adEmitted', "closed", polled'.sess)) = 1
               /\ sessions' = 0
               /\ ~sess'[polled'.sess].pollTimer
       /\ (polled'.raw = "" /\ polled'.sess # 0 /\ polled'.wasListed)
            => /\ adEmitted' = <<>>
               /\ sessions' = sessions
               /\ sess' = sess
       /\ (polled' # NoPoll /\ polled'.sess = 0)
            => adEmitted' = <<>>]_vars

\* C19: for a start that carries an instruction and was made with no active
\* session, every `output` event of the session that is not the model
\* announcement comes after the model announcement.
C19_ModelAnnouncedFirst ==
    [][\A i \in 1..Len(adEmitted') :
          LET e == adEmitted'[i]
          IN  (/\ e.type = "output"
               /\ e.what \notin ModelTexts
               /\ calls'[e.sess].args
               /\ calls'[e.sess].fresh)
                => \/ e.sess \in announced
                   \/ \E j \in 1..(i - 1) :
                         /\ adEmitted'[j].type = "output"
                         /\ adEmitted'[j].sess = e.sess
                         /\ adEmitted'[j].what \in ModelTexts]_vars

\* the pollSse activations of session c that hold or await a stream
Streams(ls, c) ==
    LET on == {l \in BagToSet(ls) : l.sess = c /\ l.pc \in {"connect", "read"}}
    IN  BagCardinality([l \in on |-> CopiesIn(l, ls)])

\* the reconnect timers pollSse set for session c
Retries(ls, c) == CopiesIn([sess |-> c, pc |-> "retryWait"], ls)

\* the connection attempts under way, whichever session they are bound to
Connects(ls) ==
    LET on == {l \in BagToSet(ls) : l.pc = "connect"}
    IN  BagCardinality([l \in on |-> CopiesIn(l, ls)])

\* C21: whenever the event stream of a session that is still marked active
\* ends (read error, clean end of the stream, failed connection attempt), the
\* reconnect that makes a new connection attempt after the fixed delay is
\* scheduled.
C21_EndedStreamReconnects ==
    [][\A c \in StartCalls :
          (/\ backend = "opencode"
           /\ Streams(loops', c) < Streams(loops, c)
           /\ sess'[c].isActive)
            => Retries(loops', c) > Retries(loops, c)]_vars

\* C23: stopSession on a registered session marks it inactive, cancels its poll
\* timer and its output timer, removes it from the map and emits exactly one
\* `stopped`, after which checkIsActive is false; with no registered session it
\* changes nothing and emits nothing.
C23_StopSession ==
    [][StopSession =>
          IF sessions = 0
          THEN /\ adEmitted' = <<>>
               /\ <<backend, sessions, sess, calls, loops, installed, serverUp,
                    tmuxNames, stoppedOf, announced>>' =
                  <<backend, sessions, sess, calls, loops, installed, serverUp,
                    tmuxNames, stoppedOf, announced>>
          ELSE /\ ~sess'[sessions].isActive
               /\ ~sess'[sessions].pollTimer
               /\ ~sess'[sessions].outputTimer
               /\ sessions' = 0
               /\ Len(adEmitted') = 1
               /\ adEmitted'[1] = [type |-> "stopped", sess |-> sessions, what |-> "none"]
               /\ ~checkIsActive(AdWorld')]_vars

\* a session a start call registered has just been stopped
C23_Witness ==
    /\ sessions = 0
    /\ Len(adEmitted) = 1
    /\ adEmitted[1].type = "stopped"
    /\ calls[adEmitted[1].sess].pc = "resolved"

\* C29: the pollSse activations of a stopped session only end: when one of them
\* leaves its position (the read returns, the connection answers, the reconnect
\* delay expires), no connection attempt is made and no activation of that
\* session is added.
C29_NoStreamAfterStop ==
    [][\A l \in BagToSet(loops) :
          (/\ l.sess \in stoppedOf
           /\ CopiesIn(l, loops') < CopiesIn(l, loops))
            => /\ Connects(loops') <= Connects(loops)
               /\ \A m \in BagToSet(loops') :
                     m.sess = l.sess => CopiesIn(m, loops') <= CopiesIn(m, loops)]_vars

\* a reconnect is scheduled for a session that was stopped since, while the
\* user has a new session
C29_Witness ==
    /\ sessions # 0
    /\ \E l \in BagToSet(loops) :
          /\ l.pc = "retryWait"
          /\ l.sess \in stoppedOf
          /\ l.sess # sessions

(***************************************************************************)
(* Claims about the text functions                                         *)
(***************************************************************************)
\* do two lines compare equal in getNewContent
sameLine(a, b) == normalizeForComparison(a) = normalizeForComparison(b)

\* the lines of the new snapshot that exceed the old snapshot's multiset of
\* lines, in the order of the new snapshot: line i is one of them when more
\* lines equal to it occur in new up to i than in the whole of old
ExceedingLines(old, new) ==
    LET ol == SplitLines(old)
        nl == SplitLines(new)
        count(ls, n, l) == Cardinality({j \in 1..n : sameLine(ls[j], l)})
        keep == {i \in 1..Len(nl) :
                    /\ normalizeForComparison(nl[i]) # <<>>
                    /\ count(nl, i, nl[i]) > count(ol, Len(ol), nl[i])}
        nth(k) == CHOOSE i \in keep : Cardinality({j \in keep : j <= i}) = k
    IN  [k \in 1..Cardinality(keep) |-> nl[nth(k)]]

\* C16 (as stated): for a non-empty old snapshot getNewContent returns exactly
\* the original lines of the new snapshot that exceed the old snapshot's
\* multiset of lines, in their order; for an empty old snapshot it returns the
\* whole new snapshot.
C16_ReturnsExceedingLines ==
    diffDone =>
        newPart = IF oldContent = <<>> THEN newContent
                  ELSE JoinLines(ExceedingLines(oldContent, newContent))

\* C16 (amended): for a non-empty old snapshot getNewContent returns the lines
\* of the new snapshot that exceed the old snapshot's multiset of lines, in
\* their order, joined and with the white space at both ends of the joined text
\* removed; for an empty old snapshot it returns the whole new snapshot.
C16_ReturnsExceedingLinesTrimmed ==
    diffDone =>
        newPart = IF oldContent = <<>> THEN newContent
                  ELSE Trim(JoinLines(ExceedingLines(oldContent, newContent)))

C16_Witness ==
    /\ diffDone
    /\ oldContent # <<>>
    /\ Len(ExceedingLines(oldContent, newContent)) >= 2
    /\ Len(ExceedingLines(oldContent, newContent)) < Len(SplitLines(newContent))
    /\ newPart # JoinLines(ExceedingLines(oldContent, newContent))

\* C17: cleanOutput is idempotent: applied to its own result it returns that
\* result.
C17_CleanOutputIdempotent ==
    (passes = 2) => (cleanedTwice = cleanedOnce)

\* C18: when two consecutive chunks are both classified as status and their
\* texts are equal after the leading spinner glyph of each line is removed
\* (with or without the blanks after the glyph), the second emits no `status`
\* event.
C18_EqualStatusNotRepeated ==
    [][(/\ polls' = polls + 1
        /\ lastChunk.kind = "status"
        /\ lastChunk'.kind = "status"
        /\ lastChunk'.bare = lastChunk.bare
        /\ lastChunk'.tight = lastChunk.tight)
          => pollEvent' # "status"]_vars

(***************************************************************************)
(* The response buffer of the HTTP backend (SpecSse)                       *)
(***************************************************************************)
\* C27: text deltas of a session are accumulated in arrival order; each delta
\* restarts the 500 ms timer, so the debounce emits only when 500 ms have
\* passed since the last delta, and what it emits is the concatenation of all
\* deltas accumulated since the buffer was last reset.
C27_TrailingDebounce ==
    [][/\ responseText' = deltas'
       /\ sseStep'.text =>
            /\ timerDue' = sseNow + sseOutputBatchMs
            /\ sseOut' = <<>>
            /\ Len(responseText') > Len(responseText)
            /\ SubSeq(responseText', 1, Len(responseText)) = responseText
       /\ sseStep'.op = "timer" =>
            /\ sseNow >= lastDeltaAt + sseOutputBatchMs
            /\ sseOut' \in {<<>>, <<deltas>>}
            /\ (sseOut' = <<>>) = ~nonBlank(deltas)]_vars

\* two deltas 250 ms apart, emitted together 500 ms after the second
C27_Witness ==
    /\ sseStep.op = "timer"
    /\ sseOut = <<deltas>>
    /\ Len(deltas) = 2
    /\ lastDeltaAt = SseClockStep
    /\ sseNow = SseClockStep + sseOutputBatchMs

\* C28: an accumulated response text is emitted at most once: when the timer
\* has emitted the buffer and no delta arrived since, a following
\* message-completed or session-idle event emits no buffer text; after a
\* flush the buffer is empty and no timer is pending.
C28_EmittedAtMostOnce ==
    [][sseStep'.completion =>
         /\ responseText' = <<>>
         /\ timerDue' = NoTimer
         /\ debounced => \A i \in 1..Len(sseOut') : sseOut'[i] # responseText]_vars

C40_BufferedTextNotDiscarded ==
    [][(/\ sseStep'.op = "input"
        /\ timerDue # NoTimer
        /\ nonBlank(responseText))
          => sseOut' = <<responseText>>]_vars

(***************************************************************************)
(* Overlapping calls of withRateLimitRetry (SpecRL)                        *)
(***************************************************************************)
\* a call of the user is waiting out a 429 and its wait is not over
WaitPending(cs, t) ==
    \E k \in Callers : cs[k].pc = "sleep" /\ t < cs[k].wakeAt

\* C37: the cooldown of a user is never shortened or cleared while a
\* 429-imposed wait of that user is still pending: the successful retry of
\* one call never erases the later cooldown another call set after its 429.
C37_CooldownKeptWhileWaiting ==
    [][WaitPending(callers', now') => blockedUntil' >= blockedUntil]_vars

(***************************************************************************)
(* A send that fails for good (SpecFail)                                   *)
(***************************************************************************)
\* the step just taken is sendChunk returning null: the plain-text attempt of
\* the chunk was answered with a failure that withRateLimitRetry rethrows
SendChunkNull(t) ==
    /\ BagIn(t, tasks)
    /\ t.kind = "soi"
    /\ t.step \in {"new", "fallback", "rest"}
    /\ t.plain
    /\ InFlight(t)
    /\ soiAnswer'.step = t.step
    /\ soiAnswer'.res # "ok"
    /\ ~BagIn([t EXCEPT !.rl = "wait1"], tasks')

\* C38: when sending a new output message fails (sendChunk returns null after
\* the Markdown attempt and the plain-text fallback both failed), lastMessageId
\* keeps its value, needsNewMessage stays as it was, nothing is added to the
\* tracked list, and isProcessing is reset after the last chunk.
C38_FailedSendLeavesState ==
    [][\A t \in BagToSet(tasks) :
         SendChunkNull(t) =>
           /\ lastMessageId' = lastMessageId
           /\ needsNewMessage' = needsNewMessage
           /\ messageIds' = messageIds
           /\ (t.i + 1 >= t.text.chunks) => ~isProcessing']_vars

\* the second output failed for good after the user's input asked for a new
\* message: the id of the first output is still the last one
C38_Witness ==
    /\ soiAnswer.step = "new"
    /\ soiAnswer.res # "ok"
    /\ fails = MaxSendFails
    /\ ~isProcessing
    /\ needsNewMessage
    /\ lastMessageId = [by |-> "output", n |-> 1, i |-> 0]
    /\ delivered = <<1, 2>>

(***************************************************************************)
(* Overlapping handlers of one user (Spec)                                 *)
(***************************************************************************)
\* C34: two handler executions of one user that read and then write
\* statusMessageId never overlap: two status events never both observe an
\* empty status slot and both send a new status message.
C34_StatusHandlersNeverOverlap ==
    \A t1, t2 \in BagToSet(tasks) :
        (/\ t1.kind = "status" /\ t1.step = "new"
         /\ t2.kind = "status" /\ t2.step = "new")
          => t1.text.id = t2.text.id

(***************************************************************************)
(* The loader message (SpecLoader)                                         *)
(***************************************************************************)
\* the step just taken got the answer to a delete of the message id
DeleteAnswered(id) ==
    \E t \in BagToSet(tasks) :
        /\ t.step = "delLoader"
        /\ InFlight(t)
        /\ t.target = id
        /\ CopiesIn(t, tasks') < CopiesIn(t, tasks)

\* C36: a loader message registered by setLoaderMessage is never forgotten
\* without a delete having been issued for that message id, also when the
\* user sends a new input while deleteLoaderMessage awaits the deletion of
\* the previous loader.
C36_LoaderNeverForgotten ==
    [][(loaderMessageId # NoMsg /\ loaderMessageId' = NoMsg)
         => DeleteAnswered(loaderMessageId)]_vars

(***************************************************************************)
(* Two users (SpecUsers)                                                   *)
(***************************************************************************)
\* the delivery state and the cooldown of a user, with its calls in flight
StateOfUser(u) ==
    <<userMessageStates[u], outputQueues[u], rateLimitStates[u], inFlight[u]>>

\* a call of the user began to sleep out a cooldown in the step just taken
BeganToWait(u) ==
    \E t \in BagToSet(inFlight'[u].tasks) :
        /\ t.rl = "wait0"
        /\ CopiesIn(t, inFlight'[u].tasks) > CopiesIn(t, inFlight[u].tasks)

\* C35: users are independent: an output or status event, a delivery, a
\* delivery failure or a 429 of one user never changes the delivery state or
\* the cooldown of another user, and a send of a user waits only for that
\* user's own cooldown (the one in force when the wait begins: a 429 that
\* ends one call of the user sets it in the step that starts the next call).
C35_UsersIndependent ==
    [][\A u \in Users :
         /\ (actor' # u) => (StateOfUser(u)' = StateOfUser(u))
         /\ BeganToWait(u) => rateLimitStates'[u].cooldown]_vars

\* user A has just been answered 429 and waits, while user B, who has a
\* delivered message, has a call in flight and no cooldown
C35_Witness ==
    /\ actor = "A"
    /\ rateLimitStates["A"].cooldown
    /\ \E t \in BagToSet(inFlight["A"].tasks) : t.rl = "wait1"
    /\ ~rateLimitStates["B"].cooldown
    /\ userMessageStates["B"].lastMessageId # NoMsg
    /\ \E t \in BagToSet(inFlight["B"].tasks) : t.rl = "op1"

(***************************************************************************)
(* The automatic keystrokes of the terminal backend (SpecKeys)             *)
(***************************************************************************)
\* C39: an automatic keystroke scheduled by a poll is never delivered to a
\* terminal session other than the one whose content triggered it, also when
\* the session is stopped and restarted under the same name before the
\* delay expires.
C39_KeysReachOwnSession ==
    keySent # NoKey => keySent.to = keySent.by

(***************************************************************************)
(* setModel and the resolution of a model query (SpecModel)                *)
(***************************************************************************)
\* the list setModel resolves against, and what the query resolves to
ModelsSeen == fetchAvailableModels(modelCache, modelCacheFresh, modelList)

Resolved == resolveModelId(modelQuery, ModelsSeen)

\* C31: setModel never throws for an expected failure: with no active
\* session or a query that resolves to no model it returns a non-null string
\* and leaves model override, model label and model-shown flag unchanged; it
\* returns null exactly when override and label were set to the resolved
\* provider/model.
C31_SetModelReturns ==
    [][(modelReturned' # modelReturned) =>
         /\ modelReturned' # NoReturn
         /\ (~modelSession.isActive \/ Resolved = NoOverride) =>
              /\ modelReturned' # ReturnsNull
              /\ modelSession' = modelSession
         /\ (modelReturned' = ReturnsNull) <=>
              /\ Resolved # NoOverride
              /\ modelSession.isActive
              /\ modelSession'.modelOverride = Resolved
              /\ modelSession'.currentModelLabel =
                   Resolved.providerID \o <<Slash>> \o Resolved.modelID]_vars

\* the tool could not list the models, nothing is cached, and the query
\* names no provider: setModel answered with its message
C31_Witness ==
    /\ modelReturned = <<"Model not found">>
    /\ modelBefore.isActive
    /\ modelList = CliFailed
    /\ modelCache = NoCache
    /\ modelSession = modelBefore

\* the query as findModelByQuery compares it
Normalized(query) == dashSpaces(Trim(toLowerCase(query)))

SomeModel(models, Test(_)) == \E k \in 1..Len(models) : Test(models[k])

\* C32: the model is chosen by strict priority: a model whose full id equals
\* the query; otherwise a model whose name part after the provider equals the
\* query, before any model that merely contains it; otherwise a model that
\* contains the query; null only when no model contains the query.
C32_StrictPriority ==
    (modelFound # NoReturn) =>
        LET q == Normalized(modelQuery)
            IsFull(m) == toLowerCase(m) = q
            IsName(m) == toLowerCase(modelPart(m)) = q
            Contains(m) == Includes(toLowerCase(m), q)
        IN  /\ SomeModel(modelList, IsFull) => IsFull(modelFound)
            /\ (~SomeModel(modelList, IsFull) /\ SomeModel(modelList, IsName))
                 => IsName(modelFound)
            /\ SomeModel(modelList, Contains)
                 => (modelFound # NoModel /\ Contains(modelFound))
            /\ (modelFound = NoModel) <=> ~SomeModel(modelList, Contains)


EnsureRunning == srvPc \in {"check", "sleep", "probe"}
EnsureEnded == srvPc \in {"returned", "thrownExit", "thrownTimeout"}

\* C33: ensureOpenCodeServer always terminates.  A call that has begun
\* ends; a health check that is answered ok makes it return at once; a
\* failed probe of the waiting loop makes it throw when the process held by
\* openCodeProcess is seen to have an exit code; the waiting loop sends at
\* most healthProbes (15) probes, and the call that was not answered ok
\* throws after the last of them.
C33_EnsureTerminates ==
    /\ [](srvProbes <= healthProbes)
    /\ [](srvPc = "thrownTimeout" => srvProbes = healthProbes)
    /\ [][/\ (srvPc \in {"check", "probe"} /\ srvPc' # srvPc /\ srvHealthy)
              => srvPc' = "returned"
          /\ (srvPc = "probe" /\ srvPc' # srvPc /\ ~srvHealthy
                /\ seesExit(srvProcs, openCodeProcess))
              => srvPc' = "thrownExit"
          /\ (srvPc' = "thrownExit" /\ srvPc # "thrownExit")
              => seesExit(srvProcs, openCodeProcess)]_vars
    /\ (EnsureRunning ~> EnsureEnded)

C33_Witness ==
    /\ srvPc = "thrownTimeout"
    /\ srvProbes = healthProbes
    /\ srvProcs # <<>>
    /\ srvProcs[Len(srvProcs)].exitCode # NoExitCode
====
